---- MODULE Spec2Model ----
(***************************************************************************)
(* Rule evaluation engine of the App Service best-practices analyzer       *)
(* (src/analyze-app-services.py): the Finding entity, the twenty check_*   *)
(* rules of AppServiceAnalyzer, the analyze() loop and the findings        *)
(* document that main() builds.                                            *)
(*                                                                         *)
(* Python values are tagged records, so that a field can hold null, a      *)
(* value of the documented type or a value of another type.  A Python str  *)
(* is a sequence of one-character strings, so that comparison, lower(),    *)
(* substring and suffix tests are computed character by character.         *)
(***************************************************************************)
EXTENDS Integers, Sequences, FiniteSets, TLC

VARIABLES
    data,       \* self.data: the snapshot the analyzers were constructed with
    pc,         \* per analyzer: the position of its caller / of analyze()
    idx,        \* per analyzer: 1-based index of the resource the loop is at
    app_name,   \* per analyzer: the local app_name of analyze()
    findings,   \* per analyzer: self.findings
    origin,     \* per analyzer: for each element of self.findings, the index
                \* of the resource whose pass appended it (history variable)
    raised_in,  \* per analyzer: the function an uncaught exception arose in
                \* (the innermost frame of its traceback), or NoFrame
    rets,       \* per analyzer: the lists returned by its analyze() calls
    doc,        \* per analyzer: findings_data built by main(), or NoDoc
    docs_pc,    \* per analyzer: the position of main() of generate-docs.py,
                \* run on the files of that analyzer's run
    docs_raised_in, \* per analyzer: the function of generate-docs.py an
                \* uncaught exception arose in, or NoFrame
    exec_summary,   \* per analyzer: what generate_executive_summary returned
    remediation     \* per analyzer: what generate_remediation_guide returned

\* the state of generate-docs.py
docvars == <<docs_pc, docs_raised_in, exec_summary, remediation>>

vars == <<data, pc, idx, app_name, findings, origin, raised_in, rets, doc, docvars>>

(***************************************************************************)
(* Python values                                                           *)
(***************************************************************************)
None == [t |-> "none"]
PStr(s) == [t |-> "str", s |-> s]
PBool(b) == [t |-> "bool", b |-> b]
PInt(i) == [t |-> "int", i |-> i]
PList(l) == [t |-> "list", l |-> l]
PDict(d) == [t |-> "dict", d |-> d]
\* the outcome of an expression that raised (AttributeError, TypeError)
Err == [t |-> "error"]

EmptyMap == [k \in {} |-> None]
EmptyDict == PDict(EmptyMap)
EmptyList == PList(<<>>)
EmptyStr == PStr(<<>>)
PTrue == PBool(TRUE)
PFalse == PBool(FALSE)

IsDict(v) == v.t = "dict"
IsStr(v) == v.t = "str"
IsList(v) == v.t = "list"
IsNum(v) == v.t \in {"int", "bool"}

\* bool is a subclass of int: True == 1, False == 0
NumVal(v) == IF v.t = "bool" THEN (IF v.b THEN 1 ELSE 0) ELSE v.i

\* truth value testing (bool(v))
Truthy(v) ==
    CASE v.t = "none" -> FALSE
      [] v.t = "bool" -> v.b
      [] v.t = "int" -> v.i # 0
      [] v.t = "str" -> Len(v.s) > 0
      [] v.t = "list" -> Len(v.l) > 0
      [] v.t = "dict" -> DOMAIN v.d # {}

\* a or b
PyOr(a, b) == IF Truthy(a) THEN a ELSE b

\* a == b
PyEq(a, b) == IF IsNum(a) /\ IsNum(b) THEN NumVal(a) = NumVal(b) ELSE a = b

\* d.get(k, default): AttributeError unless d is a dict
Get(d, k, default) ==
    IF d = Err \/ ~IsDict(d) THEN Err
    ELSE IF k \in DOMAIN d.d THEN d.d[k] ELSE default

(***************************************************************************)
(* Python str operations, over sequences of characters                     *)
(***************************************************************************)
\* the printable ASCII characters, code points 32..126 (code point 96, the
\* grave accent, cannot be written as a string literal and is named instead)
Ascii ==
    <<" ", "!", "\"", "#", "$", "%", "&", "'", "(", ")", "*", "+", ",", "-", ".", "/",
      "0", "1", "2", "3", "4", "5", "6", "7", "8", "9", ":", ";", "<", "=", ">", "?",
      "@", "A", "B", "C", "D", "E", "F", "G", "H", "I", "J", "K", "L", "M", "N", "O",
      "P", "Q", "R", "S", "T", "U", "V", "W", "X", "Y", "Z", "[", "\\", "]", "^", "_",
      "grave", "a", "b", "c", "d", "e", "f", "g", "h", "i", "j", "k", "l", "m", "n", "o",
      "p", "q", "r", "s", "t", "u", "v", "w", "x", "y", "z", "{", "|", "}", "~">>

AsciiPos(c) == CHOOSE i \in 1..Len(Ascii) : Ascii[i] = c

\* ord(c)
Ord(c) == AsciiPos(c) + 31

LowerChar(c) ==
    IF Ord(c) >= 65 /\ Ord(c) <= 90 THEN Ascii[AsciiPos(c) + 32] ELSE c

\* s.lower()
LowerStr(s) == [i \in 1..Len(s) |-> LowerChar(s[i])]

\* a < b on str: lexicographic by code point, a proper prefix is smaller
RECURSIVE StrLess(_, _)
StrLess(a, b) ==
    IF Len(b) = 0 THEN FALSE
    ELSE IF Len(a) = 0 THEN TRUE
    ELSE IF Ord(a[1]) # Ord(b[1]) THEN Ord(a[1]) < Ord(b[1])
    ELSE StrLess(Tail(a), Tail(b))

\* needle in hay
Contains(hay, needle) ==
    \E i \in 0..(Len(hay) - Len(needle)) :
        SubSeq(hay, i + 1, i + Len(needle)) = needle

\* s.endswith(suffix)
EndsWith(s, suffix) ==
    /\ Len(s) >= Len(suffix)
    /\ SubSeq(s, Len(s) - Len(suffix) + 1, Len(s)) = suffix

\* v.lower() on a value: AttributeError unless v is a str
Lower(v) == IF v = Err \/ ~IsStr(v) THEN Err ELSE PStr(LowerStr(v.s))

\* x in [s1, s2, ...] for a str x and a list of str literals
InStrs(v, strs) == \E s \in strs : v = PStr(s)


(***************************************************************************)
(* str literals of the rules                                               *)
(***************************************************************************)
S_1_2 == <<"1", ".", "2">>
S_free == <<"f", "r", "e", "e">>
S_shared == <<"s", "h", "a", "r", "e", "d">>
S_standard == <<"s", "t", "a", "n", "d", "a", "r", "d">>
S_premium == <<"p", "r", "e", "m", "i", "u", "m">>
S_premiumv2 == <<"p", "r", "e", "m", "i", "u", "m", "v", "2">>
S_premiumv3 == <<"p", "r", "e", "m", "i", "u", "m", "v", "3">>
S_allallowed == <<"a", "l", "l", "a", "l", "l", "o", "w", "e", "d">>
S_None == <<"N", "o", "n", "e">>
S_Optional == <<"O", "p", "t", "i", "o", "n", "a", "l">>
S_Off == <<"O", "f", "f">>
S_Allow == <<"A", "l", "l", "o", "w">>
S_Any == <<"A", "n", "y">>
S_azurewebsites ==
    <<".", "a", "z", "u", "r", "e", "w", "e", "b", "s", "i", "t", "e", "s", ".", "n", "e", "t">>
S_star == <<"*">>
S_Unknown == <<"U", "n", "k", "n", "o", "w", "n">>
S_NotSet == <<"N", "o", "t", " ", "s", "e", "t">>

FreeShared == {S_free, S_shared}
StandardUp == {S_standard, S_premium, S_premiumv2, S_premiumv3}
PremiumV == {S_premiumv2, S_premiumv3}

deprecated_patterns ==
    <<<<"N", "O", "D", "E", "|", "1", "0">>,
      <<"N", "O", "D", "E", "|", "1", "2">>,
      <<"N", "O", "D", "E", "|", "1", "4">>,
      <<"D", "O", "T", "N", "E", "T", "C", "O", "R", "E", "|", "2">>,
      <<"D", "O", "T", "N", "E", "T", "C", "O", "R", "E", "|", "3", ".", "0">>,
      <<"P", "Y", "T", "H", "O", "N", "|", "2">>,
      <<"P", "Y", "T", "H", "O", "N", "|", "3", ".", "6">>,
      <<"P", "Y", "T", "H", "O", "N", "|", "3", ".", "7">>,
      <<"P", "H", "P", "|", "7", ".", "0">>,
      <<"P", "H", "P", "|", "7", ".", "1">>,
      <<"P", "H", "P", "|", "7", ".", "2">>,
      <<"P", "H", "P", "|", "7", ".", "3">>,
      <<"J", "A", "V", "A", "|", "8">>>>

(***************************************************************************)
(* Finding                                                                 *)
(***************************************************************************)
CRITICAL == "Critical"
HIGH == "High"
MEDIUM == "Medium"
LOW == "Low"

\* a description: fixed text around an interpolated str (empty when the
\* description is a plain literal)
Text(s) == [pre |-> s, val |-> <<>>, post |-> ""]
FText(pre, val, post) == [pre |-> pre, val |-> val, post |-> post]

\* the constructor with the category and severity arguments in each other's place
Finding_swapped(name, category, severity, title, description, recommendation, reference) ==
    [app_name |-> name, category |-> severity, severity |-> category,
     title |-> title, description |-> description,
     recommendation |-> recommendation, reference |-> reference]

Finding(name, category, severity, title, description, recommendation, reference) ==
    [app_name |-> name, category |-> category, severity |-> severity,
     title |-> title, description |-> description,
     recommendation |-> recommendation, reference |-> reference]

to_dict(f) ==
    [appService |-> f.app_name, category |-> f.category, severity |-> f.severity,
     title |-> f.title, description |-> f.description,
     recommendation |-> f.recommendation, reference |-> f.reference]

(***************************************************************************)
(* The outcome of one check_* call: the findings it appended to            *)
(* self.findings, or an exception that left the list as it was.            *)
(***************************************************************************)
Emit(fs) == [raised |-> FALSE, out |-> fs]
Raise == [raised |-> TRUE, out |-> <<>>]
EmitIf(cond, f) == Emit(IF cond THEN <<f>> ELSE <<>>)

\* tls_config.get(key) or runtime_config.get(key, default): the second get is
\* evaluated only when the first value is falsy
TwoLocation(app, key, default) ==
    LET first == Get(Get(app, "tlsConfig", EmptyDict), key, None)
    IN  IF first = Err THEN Err
        ELSE IF Truthy(first) THEN first
        ELSE Get(Get(app, "runtimeConfig", EmptyDict), key, default)

\* sku_tier that compares the tier as it is written
sku_tier_asWritten(app) ==
    LET tier == Get(Get(Get(app, "appServicePlan", EmptyDict), "sku", EmptyDict), "tier", EmptyStr)
    IN  IF tier = Err \/ ~IsStr(tier) THEN Err ELSE tier

\* plan.get("sku", {}).get("tier", "").lower()
sku_tier(app) ==
    Lower(Get(Get(Get(app, "appServicePlan", EmptyDict), "sku", EmptyDict), "tier", EmptyStr))

\* sku_capacity with a default of two instances
sku_capacity_defaultTwo(app) ==
    Get(Get(Get(app, "appServicePlan", EmptyDict), "sku", EmptyDict), "capacity", PInt(2))

\* plan.get("sku", {}).get("capacity", 1)
sku_capacity(app) ==
    Get(Get(Get(app, "appServicePlan", EmptyDict), "sku", EmptyDict), "capacity", PInt(1))


(***************************************************************************)
(* The rule catalog: AppServiceAnalyzer.check_*                            *)
(***************************************************************************)
\* check_tls_version with <= in place of <
check_tls_version_inclusive(app) ==
    LET name == Get(app, "name", None)
        tls_config == Get(app, "tlsConfig", EmptyDict)
        min_tls == Get(tls_config, "minTlsVersion", None)
        f == Finding(name, "Security", CRITICAL,
                 "Minimum TLS version not set to 1.2 or higher",
                 FText("Current TLS version: ",
                       IF min_tls # Err /\ Truthy(min_tls) /\ IsStr(min_tls)
                       THEN min_tls.s ELSE S_NotSet,
                       ". TLS 1.0 and 1.1 are deprecated and insecure."),
                 "Set minimum TLS version to 1.2 or higher using: az webapp config set --min-tls-version 1.2",
                 "https://learn.microsoft.com/en-us/azure/app-service/configure-ssl-bindings#enforce-tls-versions")
    IN  IF min_tls = Err THEN Raise
        ELSE IF ~Truthy(min_tls) THEN Emit(<<f>>)
        ELSE IF ~IsStr(min_tls) THEN Raise
        ELSE EmitIf(~StrLess(S_1_2, min_tls.s), f)

check_tls_version(app) ==
    LET name == Get(app, "name", None)
        tls_config == Get(app, "tlsConfig", EmptyDict)
        min_tls == Get(tls_config, "minTlsVersion", None)
        f == Finding(name, "Security", CRITICAL,
                 "Minimum TLS version not set to 1.2 or higher",
                 FText("Current TLS version: ",
                       IF min_tls # Err /\ Truthy(min_tls) /\ IsStr(min_tls)
                       THEN min_tls.s ELSE S_NotSet,
                       ". TLS 1.0 and 1.1 are deprecated and insecure."),
                 "Set minimum TLS version to 1.2 or higher using: az webapp config set --min-tls-version 1.2",
                 "https://learn.microsoft.com/en-us/azure/app-service/configure-ssl-bindings#enforce-tls-versions")
    IN  IF min_tls = Err THEN Raise
        ELSE IF ~Truthy(min_tls) THEN Emit(<<f>>)
        ELSE IF ~IsStr(min_tls) THEN Raise
        ELSE EmitIf(StrLess(min_tls.s, S_1_2), f)

check_https_only(app) ==
    LET name == Get(app, "name", None)
        config == Get(app, "config", EmptyDict)
        https_only == Get(config, "httpsOnly", PFalse)
        f == Finding(name, "Security", HIGH,
                 "HTTPS Only not enforced",
                 Text("App Service is accessible over HTTP, exposing data to man-in-the-middle attacks."),
                 "Enable HTTPS Only using: az webapp update --https-only true",
                 "https://learn.microsoft.com/en-us/azure/app-service/configure-ssl-bindings#enforce-https")
    IN  IF https_only = Err THEN Raise
        ELSE EmitIf(~Truthy(https_only), f)

check_managed_identity(app) ==
    LET name == Get(app, "name", None)
        identity == Get(app, "identity", EmptyDict)
        identity_type == Get(identity, "type", PStr(S_None))
        f == Finding(name, "Security", MEDIUM,
                 "Managed Identity not enabled",
                 Text("Not using Managed Identity increases risk of credential exposure in code or configuration."),
                 "Enable System-Assigned Managed Identity using: az webapp identity assign",
                 "https://learn.microsoft.com/en-us/azure/app-service/overview-managed-identity")
    IN  IF identity_type = Err THEN Raise
        ELSE EmitIf(PyEq(identity_type, PStr(S_None)), f)

\* check_always_on that reads the flag in tlsConfig only
check_always_on_tlsOnly(app) ==
    LET name == Get(app, "name", None)
        always_on == Get(Get(app, "tlsConfig", EmptyDict), "alwaysOn", PFalse)
        sku == sku_tier(app)
        f == Finding(name, "Performance", MEDIUM,
                 "Always On is not enabled",
                 Text("App may experience cold starts and increased latency after idle periods."),
                 "Enable Always On using: az webapp config set --always-on true",
                 "https://learn.microsoft.com/en-us/azure/app-service/configure-common#configure-general-settings")
    IN  IF always_on = Err \/ sku = Err THEN Raise
        ELSE EmitIf(~InStrs(sku, FreeShared) /\ ~Truthy(always_on), f)

\* check_always_on with the tier gate of the backup and slot rules
check_always_on_gated(app) ==
    LET name == Get(app, "name", None)
        always_on == TwoLocation(app, "alwaysOn", PFalse)
        sku == sku_tier(app)
        f == Finding(name, "Performance", MEDIUM,
                 "Always On is not enabled",
                 Text("App may experience cold starts and increased latency after idle periods."),
                 "Enable Always On using: az webapp config set --always-on true",
                 "https://learn.microsoft.com/en-us/azure/app-service/configure-common#configure-general-settings")
    IN  IF always_on = Err \/ sku = Err THEN Raise
        ELSE EmitIf(InStrs(sku, StandardUp) /\ ~Truthy(always_on), f)

check_always_on(app) ==
    LET name == Get(app, "name", None)
        always_on == TwoLocation(app, "alwaysOn", PFalse)
        sku == sku_tier(app)
        f == Finding(name, "Performance", MEDIUM,
                 "Always On is not enabled",
                 Text("App may experience cold starts and increased latency after idle periods."),
                 "Enable Always On using: az webapp config set --always-on true",
                 "https://learn.microsoft.com/en-us/azure/app-service/configure-common#configure-general-settings")
    IN  IF always_on = Err \/ sku = Err THEN Raise
        ELSE EmitIf(~InStrs(sku, FreeShared) /\ ~Truthy(always_on), f)

check_remote_debugging(app) ==
    LET name == Get(app, "name", None)
        remote_debug == TwoLocation(app, "remoteDebuggingEnabled", PFalse)
        f == Finding(name, "Security", HIGH,
                 "Remote debugging is enabled",
                 Text("Remote debugging should only be enabled temporarily and poses a security risk in production."),
                 "Disable remote debugging using: az webapp config set --remote-debugging-enabled false",
                 "https://learn.microsoft.com/en-us/azure/app-service/configure-common#configure-general-settings")
    IN  IF remote_debug = Err THEN Raise
        ELSE EmitIf(Truthy(remote_debug), f)

\* check_ftps_state that fires when either location allows plain FTP
check_ftps_state_either(app) ==
    LET name == Get(app, "name", None)
        first == Lower(Get(Get(app, "tlsConfig", EmptyDict), "ftpsState", EmptyStr))
        second == Lower(Get(Get(app, "runtimeConfig", EmptyDict), "ftpsState", EmptyStr))
        f == Finding(name, "Security", MEDIUM,
                 "FTP is allowed (not secure)",
                 Text("Plain FTP is insecure. Only FTPS should be allowed."),
                 "Set FTPS to FtpsOnly or Disabled: az webapp config set --ftps-state FtpsOnly",
                 "https://learn.microsoft.com/en-us/azure/app-service/deploy-ftp")
    IN  IF first = Err \/ second = Err THEN Raise
        ELSE EmitIf(first = PStr(S_allallowed) \/ second = PStr(S_allallowed), f)

check_ftps_state(app) ==
    LET name == Get(app, "name", None)
        ftps_state == TwoLocation(app, "ftpsState", EmptyStr)
        lowered == Lower(ftps_state)
        f == Finding(name, "Security", MEDIUM,
                 "FTP is allowed (not secure)",
                 Text("Plain FTP is insecure. Only FTPS should be allowed."),
                 "Set FTPS to FtpsOnly or Disabled: az webapp config set --ftps-state FtpsOnly",
                 "https://learn.microsoft.com/en-us/azure/app-service/deploy-ftp")
    IN  IF lowered = Err THEN Raise
        ELSE EmitIf(lowered = PStr(S_allallowed), f)

\* check_http20_enabled that objects only to a flag set to false
check_http20_enabled_explicit(app) ==
    LET name == Get(app, "name", None)
        http20 == TwoLocation(app, "http20Enabled", None)
        f == Finding(name, "Performance", LOW,
                 "HTTP/2 not enabled",
                 Text("HTTP/2 provides better performance with multiplexing and header compression."),
                 "Enable HTTP/2 using: az webapp config set --http20-enabled true",
                 "https://learn.microsoft.com/en-us/azure/app-service/configure-common#configure-general-settings")
    IN  IF http20 = Err THEN Raise
        ELSE EmitIf(http20 = PFalse, f)

check_http20_enabled(app) ==
    LET name == Get(app, "name", None)
        http20 == TwoLocation(app, "http20Enabled", PFalse)
        f == Finding(name, "Performance", LOW,
                 "HTTP/2 not enabled",
                 Text("HTTP/2 provides better performance with multiplexing and header compression."),
                 "Enable HTTP/2 using: az webapp config set --http20-enabled true",
                 "https://learn.microsoft.com/en-us/azure/app-service/configure-common#configure-general-settings")
    IN  IF http20 = Err THEN Raise
        ELSE EmitIf(~Truthy(http20), f)

check_client_certificate_mode(app) ==
    LET name == Get(app, "name", None)
        config == Get(app, "config", EmptyDict)
        client_cert_enabled == Get(config, "clientCertEnabled", PFalse)
        client_cert_mode == Get(config, "clientCertMode", EmptyStr)
        f == Finding(name, "Security", LOW,
                 "Client certificates set to Optional",
                 Text("Client certificates are enabled but set to optional mode."),
                 "Consider setting to Required if mutual TLS authentication is needed: az webapp update --client-cert-mode Required",
                 "https://learn.microsoft.com/en-us/azure/app-service/app-service-web-configure-tls-mutual-auth")
    IN  IF client_cert_enabled = Err THEN Raise
        ELSE EmitIf(Truthy(client_cert_enabled) /\ PyEq(client_cert_mode, PStr(S_Optional)), f)

check_diagnostic_logs(app) ==
    LET name == Get(app, "name", None)
        diag_logs == Get(app, "diagnosticLogs", EmptyDict)
        app_logs == Get(diag_logs, "applicationLogsConfiguration", EmptyDict)
        http_logs == Get(diag_logs, "httpLogsConfiguration", EmptyDict)
        app_fs == Get(Get(app_logs, "fileSystem", EmptyDict), "level", PStr(S_Off))
        app_blob == Get(Get(app_logs, "azureBlobStorage", EmptyDict), "level", PStr(S_Off))
        http_fs == Get(Get(http_logs, "fileSystem", EmptyDict), "enabled", PFalse)
        http_blob == Get(Get(http_logs, "azureBlobStorage", EmptyDict), "enabled", PFalse)
        f == Finding(name, "Monitoring", MEDIUM,
                 "Diagnostic logging not configured",
                 Text("No application or HTTP logging is enabled, making troubleshooting difficult."),
                 "Enable diagnostic logs using: az webapp log config --application-logging filesystem --level information",
                 "https://learn.microsoft.com/en-us/azure/app-service/troubleshoot-diagnostic-logs")
    IN  \* both sub-configurations are read before either is inspected
        IF app_logs = Err \/ http_logs = Err THEN Raise
        ELSE IF app_fs = Err THEN Raise
        ELSE IF PyEq(app_fs, PStr(S_Off)) /\ app_blob = Err THEN Raise
        ELSE IF http_fs = Err THEN Raise
        ELSE IF ~Truthy(http_fs) /\ http_blob = Err THEN Raise
        ELSE LET app_logs_enabled == ~PyEq(app_fs, PStr(S_Off)) \/ ~PyEq(app_blob, PStr(S_Off))
                 http_logs_enabled == Truthy(PyOr(http_fs, http_blob))
             IN  EmitIf(~app_logs_enabled /\ ~http_logs_enabled, f)

check_backup_configuration(app) ==
    LET name == Get(app, "name", None)
        backup == Get(app, "backupConfig", EmptyList)
        sku == sku_tier(app)
        f == Finding(name, "Reliability", MEDIUM,
                 "Backup not configured",
                 Text("No backup schedule configured for the App Service."),
                 "Configure automated backups for disaster recovery: az webapp config backup create",
                 "https://learn.microsoft.com/en-us/azure/app-service/manage-backup")
    IN  IF sku = Err THEN Raise
        ELSE EmitIf(InStrs(sku, StandardUp) /\ ~Truthy(backup), f)

check_deployment_slots(app) ==
    LET name == Get(app, "name", None)
        slots == Get(app, "deploymentSlots", EmptyList)
        sku == sku_tier(app)
        f == Finding(name, "DevOps", LOW,
                 "No deployment slots configured",
                 Text("Deployment slots enable zero-downtime deployments and easy rollback."),
                 "Create a staging slot: az webapp deployment slot create --slot staging",
                 "https://learn.microsoft.com/en-us/azure/app-service/deploy-staging-slots")
    IN  IF sku = Err THEN Raise
        ELSE EmitIf(InStrs(sku, StandardUp) /\ ~Truthy(slots), f)


\* check_app_service_plan whose single-instance test has no tier gate
check_app_service_plan_ungated(app) ==
    LET name == Get(app, "name", None)
        plan == Get(app, "appServicePlan", EmptyDict)
        sku == Get(plan, "sku", EmptyDict)
        tier == Lower(Get(sku, "tier", EmptyStr))
        capacity == Get(sku, "capacity", PInt(1))
        zone_redundant == Get(plan, "zoneRedundant", PFalse)
        f_tier == Finding(name, "Reliability", HIGH,
                 "Using Free or Shared tier",
                 Text("Free/Shared tiers have limited resources, no SLA, and lack production features."),
                 "Upgrade to at least Basic tier for production workloads: az appservice plan update --sku B1",
                 "https://learn.microsoft.com/en-us/azure/app-service/overview-hosting-plans")
        f_single == Finding(name, "Reliability", MEDIUM,
                 "Single instance configuration",
                 Text("Running on a single instance - no redundancy for high availability."),
                 "Scale to at least 2 instances or enable autoscaling for production apps",
                 "https://learn.microsoft.com/en-us/azure/app-service/manage-scale-up")
        f_zone == Finding(name, "Reliability", LOW,
                 "Zone redundancy not enabled",
                 Text("Zone redundancy provides higher availability across Azure availability zones."),
                 "Consider enabling zone redundancy for critical production apps",
                 "https://learn.microsoft.com/en-us/azure/app-service/how-to-zone-redundancy")
    IN  IF tier = Err THEN Raise
        ELSE Emit((IF InStrs(tier, FreeShared) THEN <<f_tier>> ELSE <<>>)
               \o (IF PyEq(capacity, PInt(1)) THEN <<f_single>> ELSE <<>>)
               \o (IF InStrs(tier, PremiumV) /\ ~Truthy(zone_redundant)
                   THEN <<f_zone>> ELSE <<>>))

check_app_service_plan(app) ==
    LET name == Get(app, "name", None)
        plan == Get(app, "appServicePlan", EmptyDict)
        sku == Get(plan, "sku", EmptyDict)
        tier == Lower(Get(sku, "tier", EmptyStr))
        capacity == Get(sku, "capacity", PInt(1))
        zone_redundant == Get(plan, "zoneRedundant", PFalse)
        f_tier == Finding(name, "Reliability", HIGH,
                 "Using Free or Shared tier",
                 Text("Free/Shared tiers have limited resources, no SLA, and lack production features."),
                 "Upgrade to at least Basic tier for production workloads: az appservice plan update --sku B1",
                 "https://learn.microsoft.com/en-us/azure/app-service/overview-hosting-plans")
        f_single == Finding(name, "Reliability", MEDIUM,
                 "Single instance configuration",
                 Text("Running on a single instance - no redundancy for high availability."),
                 "Scale to at least 2 instances or enable autoscaling for production apps",
                 "https://learn.microsoft.com/en-us/azure/app-service/manage-scale-up")
        f_zone == Finding(name, "Reliability", LOW,
                 "Zone redundancy not enabled",
                 Text("Zone redundancy provides higher availability across Azure availability zones."),
                 "Consider enabling zone redundancy for critical production apps",
                 "https://learn.microsoft.com/en-us/azure/app-service/how-to-zone-redundancy")
    IN  IF tier = Err THEN Raise
        ELSE Emit((IF InStrs(tier, FreeShared) THEN <<f_tier>> ELSE <<>>)
               \o (IF ~InStrs(tier, FreeShared) /\ PyEq(capacity, PInt(1))
                   THEN <<f_single>> ELSE <<>>)
               \o (IF InStrs(tier, PremiumV) /\ ~Truthy(zone_redundant)
                   THEN <<f_zone>> ELSE <<>>))

check_vnet_integration(app) ==
    LET name == Get(app, "name", None)
        vnet == Get(app, "vnetIntegration", EmptyList)
        f == Finding(name, "Security", LOW,
                 "VNet integration not configured",
                 Text("App Service is not integrated with a Virtual Network, limiting network isolation options."),
                 "Consider VNet integration for secure access to backend resources: az webapp vnet-integration add",
                 "https://learn.microsoft.com/en-us/azure/app-service/overview-vnet-integration")
    IN  EmitIf(~Truthy(vnet), f)

\* [r for r in rules if r.get("action") != "Allow" or r.get("ipAddress") != "Any"]:
\* the kept entries, or Err when rules cannot be iterated (None, a number) or
\* an element has no get (an element that is not a dict, a character of a
\* non-empty str, a key of a non-empty dict)
FilterDefaultAllow(rules) ==
    IF rules = Err THEN Err
    ELSE IF IsList(rules)
    THEN IF \E i \in 1..Len(rules.l) : ~IsDict(rules.l[i]) THEN Err
         ELSE PList(SelectSeq(rules.l,
                  LAMBDA r : \/ ~PyEq(Get(r, "action", None), PStr(S_Allow))
                             \/ ~PyEq(Get(r, "ipAddress", None), PStr(S_Any))))
    ELSE IF (IsStr(rules) \/ IsDict(rules)) /\ ~Truthy(rules) THEN EmptyList
    ELSE Err

\* check_ip_restrictions whose SCM test follows the main site when the SCM
\* site uses the main-site rules
check_ip_restrictions_scmFollowsMain(app) ==
    LET name == Get(app, "name", None)
        ip_restrictions == Get(app, "ipRestrictions", EmptyDict)
        main_site_rules ==
            FilterDefaultAllow(Get(ip_restrictions, "ipSecurityRestrictions", EmptyList))
        scm_rules ==
            FilterDefaultAllow(Get(ip_restrictions, "scmIpSecurityRestrictions", EmptyList))
        use_main == Get(ip_restrictions, "scmIpSecurityRestrictionsUseMain", PFalse)
        f_main == Finding(name, "Security", MEDIUM,
                 "No IP restrictions configured",
                 Text("App Service is accessible from any IP address on the internet."),
                 "Configure IP restrictions to limit access: az webapp config access-restriction add",
                 "https://learn.microsoft.com/en-us/azure/app-service/app-service-ip-restrictions")
        f_scm == Finding(name, "Security", MEDIUM,
                 "No SCM IP restrictions configured",
                 Text("Kudu/SCM site is accessible from any IP address."),
                 "Configure SCM IP restrictions or use main site restrictions: az webapp config access-restriction add --scm-site true",
                 "https://learn.microsoft.com/en-us/azure/app-service/app-service-ip-restrictions")
    IN  IF main_site_rules = Err \/ scm_rules = Err THEN Raise
        ELSE Emit((IF ~Truthy(main_site_rules) THEN <<f_main>> ELSE <<>>)
               \o (IF ~Truthy(scm_rules) /\ (~Truthy(use_main) \/ ~Truthy(main_site_rules))
                   THEN <<f_scm>> ELSE <<>>))

check_ip_restrictions(app) ==
    LET name == Get(app, "name", None)
        ip_restrictions == Get(app, "ipRestrictions", EmptyDict)
        main_site_rules ==
            FilterDefaultAllow(Get(ip_restrictions, "ipSecurityRestrictions", EmptyList))
        scm_rules ==
            FilterDefaultAllow(Get(ip_restrictions, "scmIpSecurityRestrictions", EmptyList))
        use_main == Get(ip_restrictions, "scmIpSecurityRestrictionsUseMain", PFalse)
        f_main == Finding(name, "Security", MEDIUM,
                 "No IP restrictions configured",
                 Text("App Service is accessible from any IP address on the internet."),
                 "Configure IP restrictions to limit access: az webapp config access-restriction add",
                 "https://learn.microsoft.com/en-us/azure/app-service/app-service-ip-restrictions")
        f_scm == Finding(name, "Security", MEDIUM,
                 "No SCM IP restrictions configured",
                 Text("Kudu/SCM site is accessible from any IP address."),
                 "Configure SCM IP restrictions or use main site restrictions: az webapp config access-restriction add --scm-site true",
                 "https://learn.microsoft.com/en-us/azure/app-service/app-service-ip-restrictions")
    IN  IF main_site_rules = Err \/ scm_rules = Err THEN Raise
        ELSE Emit((IF ~Truthy(main_site_rules) THEN <<f_main>> ELSE <<>>)
               \o (IF ~Truthy(scm_rules) /\ ~Truthy(use_main) THEN <<f_scm>> ELSE <<>>))

check_authentication(app) ==
    LET name == Get(app, "name", None)
        auth == Get(app, "authConfig", EmptyDict)
        enabled == Get(auth, "enabled", PFalse)
        f == Finding(name, "Security", LOW,
                 "App Service Authentication not enabled",
                 Text("Easy Auth/EasyAuth is not configured. Consider if authentication is needed."),
                 "If the app requires authentication, enable App Service Authentication: az webapp auth update --enabled true",
                 "https://learn.microsoft.com/en-us/azure/app-service/overview-authentication-authorization")
    IN  IF enabled = Err THEN Raise
        ELSE EmitIf(~Truthy(enabled), f)

\* CustomDomains that leaves out the entries without a hostName
CustomDomains_named(domains) ==
    IF IsList(domains)
    THEN IF \E i \in 1..Len(domains.l) :
                \/ ~IsDict(domains.l[i])
                \/ ~IsStr(Get(domains.l[i], "hostName", EmptyStr))
         THEN Err
         ELSE PList(SelectSeq(domains.l,
                  LAMBDA d : /\ Get(d, "hostName", EmptyStr) # EmptyStr
                             /\ ~EndsWith(Get(d, "hostName", EmptyStr).s, S_azurewebsites)))
    ELSE IF (IsStr(domains) \/ IsDict(domains)) /\ ~Truthy(domains) THEN EmptyList
    ELSE Err

\* [d for d in domains if not d.get("hostName", "").endswith(".azurewebsites.net")]
CustomDomains(domains) ==
    IF IsList(domains)
    THEN IF \E i \in 1..Len(domains.l) :
                \/ ~IsDict(domains.l[i])
                \/ ~IsStr(Get(domains.l[i], "hostName", EmptyStr))
         THEN Err
         ELSE PList(SelectSeq(domains.l,
                  LAMBDA d : ~EndsWith(Get(d, "hostName", EmptyStr).s, S_azurewebsites)))
    ELSE IF (IsStr(domains) \/ IsDict(domains)) /\ ~Truthy(domains) THEN EmptyList
    ELSE Err

check_custom_domain_ssl(app) ==
    LET name == Get(app, "name", None)
        domains == Get(app, "customDomains", EmptyList)
        ssl_certs == Get(app, "sslCertificates", EmptyList)
        custom_domains == CustomDomains(domains)
        f == Finding(name, "Security", MEDIUM,
                 "Custom domain without SSL certificate",
                 Text("Custom domain(s) configured but no SSL certificates found."),
                 "Add SSL certificates for custom domains: az webapp config ssl upload",
                 "https://learn.microsoft.com/en-us/azure/app-service/configure-ssl-certificate")
    IN  IF custom_domains = Err THEN Raise
        ELSE EmitIf(Truthy(custom_domains) /\ ~Truthy(ssl_certs), f)

\* check_runtime_version that looks for the patterns in all three locations
check_runtime_version_anyLocation(app) ==
    LET name == Get(app, "name", None)
        config == Get(app, "config", EmptyDict)
        runtime_config == Get(app, "runtimeConfig", EmptyDict)
        config_fx == Lower(Get(config, "linuxFxVersion", EmptyStr))
        linux_fx == Lower(Get(runtime_config, "linuxFxVersion", EmptyStr))
        windows_fx == Lower(Get(runtime_config, "windowsFxVersion", EmptyStr))
        f == Finding(name, "Security", HIGH,
                 "Using deprecated or outdated runtime version",
                 FText("Runtime version '", <<>>, "' may be deprecated or lack security updates."),
                 "Update to a supported runtime version: az webapp config set --linux-fx-version or --windows-fx-version",
                 "https://learn.microsoft.com/en-us/azure/app-service/overview-patch-os-runtime")
    IN  IF config_fx = Err \/ linux_fx = Err \/ windows_fx = Err THEN Raise
        ELSE EmitIf(\E i \in 1..Len(deprecated_patterns) :
                        \/ Contains(config_fx.s, LowerStr(deprecated_patterns[i]))
                        \/ Contains(linux_fx.s, LowerStr(deprecated_patterns[i]))
                        \/ Contains(windows_fx.s, LowerStr(deprecated_patterns[i])), f)

\* check_runtime_version whose loop goes on after a match
check_runtime_version_noBreak(app) ==
    LET name == Get(app, "name", None)
        config == Get(app, "config", EmptyDict)
        runtime_config == Get(app, "runtimeConfig", EmptyDict)
        config_fx == Get(config, "linuxFxVersion", EmptyStr)
        linux_fx == IF config_fx = Err THEN Err
                    ELSE IF Truthy(config_fx) THEN config_fx
                    ELSE Get(runtime_config, "linuxFxVersion", EmptyStr)
        windows_fx == Get(runtime_config, "windowsFxVersion", EmptyStr)
        fx_version == IF linux_fx = Err \/ windows_fx = Err THEN Err
                      ELSE PyOr(linux_fx, windows_fx)
        lowered == Lower(fx_version)
        f == Finding(name, "Security", HIGH,
                 "Using deprecated or outdated runtime version",
                 FText("Runtime version '",
                       IF fx_version # Err /\ IsStr(fx_version) THEN fx_version.s ELSE <<>>,
                       "' may be deprecated or lack security updates."),
                 "Update to a supported runtime version: az webapp config set --linux-fx-version or --windows-fx-version",
                 "https://learn.microsoft.com/en-us/azure/app-service/overview-patch-os-runtime")
    IN  IF lowered = Err THEN Raise
        ELSE Emit([i \in 1..Len(SelectSeq(deprecated_patterns,
                                  LAMBDA p : Contains(lowered.s, LowerStr(p)))) |-> f])

check_runtime_version(app) ==
    LET name == Get(app, "name", None)
        config == Get(app, "config", EmptyDict)
        runtime_config == Get(app, "runtimeConfig", EmptyDict)
        config_fx == Get(config, "linuxFxVersion", EmptyStr)
        linux_fx == IF config_fx = Err THEN Err
                    ELSE IF Truthy(config_fx) THEN config_fx
                    ELSE Get(runtime_config, "linuxFxVersion", EmptyStr)
        windows_fx == Get(runtime_config, "windowsFxVersion", EmptyStr)
        fx_version == IF linux_fx = Err \/ windows_fx = Err THEN Err
                      ELSE PyOr(linux_fx, windows_fx)
        lowered == Lower(fx_version)
        f == Finding(name, "Security", HIGH,
                 "Using deprecated or outdated runtime version",
                 FText("Runtime version '",
                       IF fx_version # Err /\ IsStr(fx_version) THEN fx_version.s ELSE <<>>,
                       "' may be deprecated or lack security updates."),
                 "Update to a supported runtime version: az webapp config set --linux-fx-version or --windows-fx-version",
                 "https://learn.microsoft.com/en-us/azure/app-service/overview-patch-os-runtime")
    IN  IF lowered = Err THEN Raise
        \* the loop appends for the first matching pattern and breaks
        ELSE EmitIf(\E i \in 1..Len(deprecated_patterns) :
                        Contains(lowered.s, LowerStr(deprecated_patterns[i])), f)

\* check_health_check without its tier test
check_health_check_ungated(app) ==
    LET name == Get(app, "name", None)
        runtime_config == Get(app, "runtimeConfig", EmptyDict)
        health_check_path == Get(runtime_config, "healthCheckPath", EmptyStr)
        sku == sku_tier(app)
        capacity == sku_capacity(app)
        f == Finding(name, "Reliability", MEDIUM,
                 "Health check not configured",
                 Text("No health check endpoint configured for multi-instance deployment."),
                 "Configure health check path: az webapp config set --health-check-path /health",
                 "https://learn.microsoft.com/en-us/azure/app-service/monitor-instances-health-check")
    IN  IF health_check_path = Err \/ sku = Err THEN Raise
        ELSE IF ~IsNum(capacity) THEN Raise
        ELSE EmitIf(NumVal(capacity) > 1 /\ ~Truthy(health_check_path), f)

check_health_check(app) ==
    LET name == Get(app, "name", None)
        runtime_config == Get(app, "runtimeConfig", EmptyDict)
        health_check_path == Get(runtime_config, "healthCheckPath", EmptyStr)
        sku == sku_tier(app)
        capacity == sku_capacity(app)
        f == Finding(name, "Reliability", MEDIUM,
                 "Health check not configured",
                 Text("No health check endpoint configured for multi-instance deployment."),
                 "Configure health check path: az webapp config set --health-check-path /health",
                 "https://learn.microsoft.com/en-us/azure/app-service/monitor-instances-health-check")
    IN  IF health_check_path = Err \/ sku = Err THEN Raise
        ELSE IF InStrs(sku, FreeShared) THEN Emit(<<>>)
        \* capacity > 1 is a TypeError unless capacity is a number
        ELSE IF ~IsNum(capacity) THEN Raise
        ELSE EmitIf(NumVal(capacity) > 1 /\ ~Truthy(health_check_path), f)

check_auto_heal(app) ==
    LET name == Get(app, "name", None)
        runtime_config == Get(app, "runtimeConfig", EmptyDict)
        auto_heal == Get(runtime_config, "autoHealEnabled", PFalse)
        f == Finding(name, "Reliability", LOW,
                 "Auto-heal not configured",
                 Text("Auto-heal can automatically recover from common failure scenarios."),
                 "Consider enabling auto-heal with appropriate triggers and actions",
                 "https://learn.microsoft.com/en-us/azure/app-service/overview-diagnostics#auto-healing")
    IN  IF auto_heal = Err THEN Raise
        ELSE EmitIf(~Truthy(auto_heal), f)

\* "*" in allowed_origins: an element of a list, a substring of a str, a key
\* of a dict; Err (TypeError) for None and numbers
StarIn(allowed_origins) ==
    CASE IsList(allowed_origins) ->
            PBool(\E i \in 1..Len(allowed_origins.l) : allowed_origins.l[i] = PStr(S_star))
      [] IsStr(allowed_origins) -> PBool(Contains(allowed_origins.s, S_star))
      [] IsDict(allowed_origins) -> PBool("*" \in DOMAIN allowed_origins.d)
      [] OTHER -> Err

\* check_cors_configuration reporting each "*" entry of the list
check_cors_configuration_perOrigin(app) ==
    LET name == Get(app, "name", None)
        runtime_config == Get(app, "runtimeConfig", EmptyDict)
        cors == Get(runtime_config, "cors", None)
        allowed_origins == Get(cors, "allowedOrigins", EmptyList)
        f == Finding(name, "Security", MEDIUM,
                 "CORS configured with wildcard (*)",
                 Text("CORS is configured to allow all origins, which may expose the API to unauthorized access."),
                 "Restrict CORS to specific origins: az webapp cors remove --allowed-origins * && az webapp cors add --allowed-origins https://example.com",
                 "https://learn.microsoft.com/en-us/azure/app-service/app-service-web-tutorial-rest-api")
    IN  IF cors = Err THEN Raise
        ELSE IF cors = None \/ ~Truthy(cors) THEN Emit(<<>>)
        ELSE IF allowed_origins = Err \/ ~IsList(allowed_origins) THEN Raise
        ELSE Emit([i \in 1..Len(SelectSeq(allowed_origins.l, LAMBDA o : o = PStr(S_star))) |-> f])

check_cors_configuration(app) ==
    LET name == Get(app, "name", None)
        runtime_config == Get(app, "runtimeConfig", EmptyDict)
        cors == Get(runtime_config, "cors", None)
        allowed_origins == Get(cors, "allowedOrigins", EmptyList)
        f == Finding(name, "Security", MEDIUM,
                 "CORS configured with wildcard (*)",
                 Text("CORS is configured to allow all origins, which may expose the API to unauthorized access."),
                 "Restrict CORS to specific origins: az webapp cors remove --allowed-origins * && az webapp cors add --allowed-origins https://example.com",
                 "https://learn.microsoft.com/en-us/azure/app-service/app-service-web-tutorial-rest-api")
    IN  IF cors = Err THEN Raise
        ELSE IF cors = None THEN Emit(<<>>)
        ELSE IF allowed_origins = Err THEN Raise
        ELSE IF StarIn(allowed_origins) = Err THEN Raise
        ELSE EmitIf(StarIn(allowed_origins).b, f)


(***************************************************************************)
(* AppServiceAnalyzer.analyze and main                                     *)
(***************************************************************************)
Analyzers == DOMAIN pc

NoDoc == [t |-> "nodoc"]
NoFrame == "none"

\* the order of the twenty calls in the body of the for loop
RuleOrder ==
    <<"check_tls_version", "check_https_only", "check_managed_identity",
      "check_always_on", "check_remote_debugging", "check_ftps_state",
      "check_http20_enabled", "check_client_certificate_mode",
      "check_diagnostic_logs", "check_backup_configuration",
      "check_deployment_slots", "check_app_service_plan",
      "check_vnet_integration", "check_ip_restrictions",
      "check_authentication", "check_custom_domain_ssl",
      "check_runtime_version", "check_health_check", "check_auto_heal",
      "check_cors_configuration">>

RulePos(label) == CHOOSE i \in 1..Len(RuleOrder) : RuleOrder[i] = label

\* where control goes after the call at `label`: the next call, or the top of
\* the loop after the last one
AfterRule(label) ==
    IF RulePos(label) < Len(RuleOrder) THEN RuleOrder[RulePos(label) + 1] ELSE "loop"

\* the get without its default: a snapshot without the key gives None
AppServices_noDefault == Get(data, "appServices", None)

\* self.data.get("appServices", [])
AppServices == Get(data, "appServices", EmptyList)

\* the for statement can take its elements: a list, or an empty str or dict
Iterable(v) == IsList(v) \/ ((IsStr(v) \/ IsDict(v)) /\ ~Truthy(v))

Items(v) == IF IsList(v) THEN v.l ELSE <<>>

\* a loop that visits the resources in an order of the instance's own, as
\* over an unordered collection
app_service_unordered(a) ==
    LET n == Len(Items(AppServices))
    IN  IF idx[a] \in 1..n THEN Items(AppServices)[((idx[a] + a - 2) % n) + 1] ELSE EmptyDict

\* a loop whose rules all read the first resource of the collection
app_service_first(a) ==
    IF idx[a] \in 1..Len(Items(AppServices)) THEN Items(AppServices)[1] ELSE EmptyDict

\* the loop variable app_service
app_service(a) ==
    IF idx[a] \in 1..Len(Items(AppServices)) THEN Items(AppServices)[idx[a]] ELSE EmptyDict

\* analyzer = AppServiceAnalyzer(data)
NewAnalyzers(A) ==
    /\ pc = [a \in A |-> "constructed"]
    /\ idx = [a \in A |-> 0]
    /\ app_name = [a \in A |-> None]
    /\ findings = [a \in A |-> <<>>]
    /\ origin = [a \in A |-> <<>>]
    /\ raised_in = [a \in A |-> NoFrame]
    /\ rets = [a \in A |-> <<>>]
    /\ doc = [a \in A |-> NoDoc]
    /\ docs_pc = [a \in A |-> "start"]
    /\ docs_raised_in = [a \in A |-> NoFrame]
    /\ exec_summary = [a \in A |-> NoDoc]
    /\ remediation = [a \in A |-> NoDoc]

\* analyze() is entered
Analyze(a) ==
    /\ pc[a] = "constructed"
    /\ pc' = [pc EXCEPT ![a] = "loop"]
    /\ idx' = [idx EXCEPT ![a] = 0]
    /\ UNCHANGED <<data, app_name, findings, origin, raised_in, rets, doc, docvars>>

\* for app_service in ...: the next element is taken and its name read; an
\* exception (appServices not iterable, an element without get) leaves analyze
ForNext(a) ==
    /\ pc[a] = "loop"
    /\ ~Iterable(AppServices) \/ idx[a] < Len(Items(AppServices))
    /\ IF Iterable(AppServices) /\ IsDict(Items(AppServices)[idx[a] + 1])
       THEN /\ idx' = [idx EXCEPT ![a] = @ + 1]
            /\ app_name' = [app_name EXCEPT ![a] =
                   Get(Items(AppServices)[idx[a] + 1], "name", PStr(S_Unknown))]
            /\ pc' = [pc EXCEPT ![a] = RuleOrder[1]]
            /\ UNCHANGED raised_in
       ELSE /\ pc' = [pc EXCEPT ![a] = "raised"]
            /\ raised_in' = [raised_in EXCEPT ![a] = "analyze"]
            /\ UNCHANGED <<idx, app_name>>
    /\ UNCHANGED <<data, findings, origin, rets, doc, docvars>>

\* a call whose findings are inserted at the head of self.findings
RunCheck_prepend(a, label, result) ==
    /\ pc[a] = label
    /\ IF result.raised
       THEN /\ pc' = [pc EXCEPT ![a] = "raised"]
            /\ raised_in' = [raised_in EXCEPT ![a] = label]
            /\ UNCHANGED <<findings, origin>>
       ELSE /\ findings' = [findings EXCEPT ![a] = result.out \o @]
            /\ origin' = [origin EXCEPT ![a] = [i \in 1..Len(result.out) |-> idx[a]] \o @]
            /\ pc' = [pc EXCEPT ![a] = AfterRule(label)]
            /\ UNCHANGED raised_in
    /\ UNCHANGED <<data, idx, app_name, rets, doc, docvars>>

\* a call that reads its sub-structure with setdefault: the key is added to the
\* resource record when it is missing
RunCheck_setdefault(a, label, result) ==
    /\ pc[a] = label
    /\ IF result.raised
       THEN /\ pc' = [pc EXCEPT ![a] = "raised"]
            /\ raised_in' = [raised_in EXCEPT ![a] = label]
            /\ UNCHANGED <<findings, origin>>
       ELSE /\ findings' = [findings EXCEPT ![a] = @ \o result.out]
            /\ origin' = [origin EXCEPT ![a] = @ \o [i \in 1..Len(result.out) |-> idx[a]]]
            /\ pc' = [pc EXCEPT ![a] = AfterRule(label)]
            /\ UNCHANGED raised_in
    /\ data' = PDict([data.d EXCEPT !["appServices"] =
                   PList([Items(AppServices) EXCEPT ![idx[a]] =
                       PDict(@.d @@ ("tlsConfig" :> EmptyDict))])])
    /\ UNCHANGED <<idx, app_name, rets, doc, docvars>>

\* a call that starts self.findings afresh with its own findings
RunCheck_reset(a, label, result) ==
    /\ pc[a] = label
    /\ IF result.raised
       THEN /\ pc' = [pc EXCEPT ![a] = "raised"]
            /\ raised_in' = [raised_in EXCEPT ![a] = label]
            /\ UNCHANGED <<findings, origin>>
       ELSE /\ findings' = [findings EXCEPT ![a] = result.out]
            /\ origin' = [origin EXCEPT ![a] = [i \in 1..Len(result.out) |-> idx[a]]]
            /\ pc' = [pc EXCEPT ![a] = AfterRule(label)]
            /\ UNCHANGED raised_in
    /\ UNCHANGED <<data, idx, app_name, rets, doc, docvars>>

\* one call self.check_*(app_service) at position `label`, with its outcome
RunCheck(a, label, result) ==
    /\ pc[a] = label
    /\ IF result.raised
       THEN /\ pc' = [pc EXCEPT ![a] = "raised"]
            /\ raised_in' = [raised_in EXCEPT ![a] = label]
            /\ UNCHANGED <<findings, origin>>
       ELSE /\ findings' = [findings EXCEPT ![a] = @ \o result.out]
            /\ origin' = [origin EXCEPT ![a] = @ \o [i \in 1..Len(result.out) |-> idx[a]]]
            /\ pc' = [pc EXCEPT ![a] = AfterRule(label)]
            /\ UNCHANGED raised_in
    /\ UNCHANGED <<data, idx, app_name, rets, doc, docvars>>

Call_check_tls_version(a) ==
    RunCheck(a, "check_tls_version", check_tls_version(app_service(a)))
Call_check_https_only(a) ==
    RunCheck(a, "check_https_only", check_https_only(app_service(a)))
Call_check_managed_identity(a) ==
    RunCheck(a, "check_managed_identity", check_managed_identity(app_service(a)))
Call_check_always_on(a) ==
    RunCheck(a, "check_always_on", check_always_on(app_service(a)))
Call_check_remote_debugging(a) ==
    RunCheck(a, "check_remote_debugging", check_remote_debugging(app_service(a)))
Call_check_ftps_state(a) ==
    RunCheck(a, "check_ftps_state", check_ftps_state(app_service(a)))
Call_check_http20_enabled(a) ==
    RunCheck(a, "check_http20_enabled", check_http20_enabled(app_service(a)))
Call_check_client_certificate_mode(a) ==
    RunCheck(a, "check_client_certificate_mode", check_client_certificate_mode(app_service(a)))
Call_check_diagnostic_logs(a) ==
    RunCheck(a, "check_diagnostic_logs", check_diagnostic_logs(app_service(a)))
Call_check_backup_configuration(a) ==
    RunCheck(a, "check_backup_configuration", check_backup_configuration(app_service(a)))
Call_check_deployment_slots(a) ==
    RunCheck(a, "check_deployment_slots", check_deployment_slots(app_service(a)))
Call_check_app_service_plan(a) ==
    RunCheck(a, "check_app_service_plan", check_app_service_plan(app_service(a)))
Call_check_vnet_integration(a) ==
    RunCheck(a, "check_vnet_integration", check_vnet_integration(app_service(a)))
Call_check_ip_restrictions(a) ==
    RunCheck(a, "check_ip_restrictions", check_ip_restrictions(app_service(a)))
Call_check_authentication(a) ==
    RunCheck(a, "check_authentication", check_authentication(app_service(a)))
Call_check_custom_domain_ssl(a) ==
    RunCheck(a, "check_custom_domain_ssl", check_custom_domain_ssl(app_service(a)))
Call_check_runtime_version(a) ==
    RunCheck(a, "check_runtime_version", check_runtime_version(app_service(a)))
Call_check_health_check(a) ==
    RunCheck(a, "check_health_check", check_health_check(app_service(a)))
Call_check_auto_heal(a) ==
    RunCheck(a, "check_auto_heal", check_auto_heal(app_service(a)))
Call_check_cors_configuration(a) ==
    RunCheck(a, "check_cors_configuration", check_cors_configuration(app_service(a)))

\* return self.findings, once the loop is exhausted
Return(a) ==
    /\ pc[a] = "loop"
    /\ Iterable(AppServices)
    /\ idx[a] >= Len(Items(AppServices))
    /\ rets' = [rets EXCEPT ![a] = Append(@, findings[a])]
    /\ pc' = [pc EXCEPT ![a] = "returned"]
    /\ UNCHANGED <<data, idx, app_name, findings, origin, raised_in, doc, docvars>>

\* the values datetime.now().isoformat() may take
Instants == {"t1", "t2"}

\* the Low count compared against a misspelt severity
CountSeverity_lowMisspelt(fs, sev) ==
    Cardinality({i \in 1..Len(fs) : fs[i].severity = (IF sev = LOW THEN "low" ELSE sev)})

CountSeverity(fs, sev) == Cardinality({i \in 1..Len(fs) : fs[i].severity = sev})

\* findings_data of main(), for the list analyze() returned
FindingsData(fs, now) ==
    [subscription |-> Get(data, "subscription", None),
     subscriptionId |-> Get(data, "subscriptionId", None),
     assessmentDate |-> Get(data, "assessmentDate", None),
     analysisDate |-> now,
     totalFindings |-> Len(fs),
     findingsBySeverity |->
         [Critical |-> CountSeverity(fs, CRITICAL),
          High |-> CountSeverity(fs, HIGH),
          Medium |-> CountSeverity(fs, MEDIUM),
          Low |-> CountSeverity(fs, LOW)],
     findings |-> [i \in 1..Len(fs) |-> to_dict(fs[i])]]

RECURSIVE Flatten(_)
Flatten(ss) == IF ss = <<>> THEN <<>> ELSE Head(ss) \o Flatten(Tail(ss))

\* the findings the twenty calls of one loop iteration append for app, in the
\* order of the calls
LoopBody(app) ==
    Flatten(<<check_tls_version(app).out, check_https_only(app).out,
              check_managed_identity(app).out, check_always_on(app).out,
              check_remote_debugging(app).out, check_ftps_state(app).out,
              check_http20_enabled(app).out, check_client_certificate_mode(app).out,
              check_diagnostic_logs(app).out, check_backup_configuration(app).out,
              check_deployment_slots(app).out, check_app_service_plan(app).out,
              check_vnet_integration(app).out, check_ip_restrictions(app).out,
              check_authentication(app).out, check_custom_domain_ssl(app).out,
              check_runtime_version(app).out, check_health_check(app).out,
              check_auto_heal(app).out, check_cors_configuration(app).out>>)

\* main(): the findings document is built from the list analyze() returned
SaveFindings(a) ==
    /\ pc[a] = "returned"
    /\ \E now \in Instants :
           doc' = [doc EXCEPT ![a] = FindingsData(rets[a][Len(rets[a])], now)]
    /\ pc' = [pc EXCEPT ![a] = "saved"]
    /\ UNCHANGED <<data, idx, app_name, findings, origin, raised_in, rets, docvars>>


(***************************************************************************)
(* generate-docs.py: the two documents rendered from the findings file and *)
(* the snapshot file.  A document is kept as its variable parts, in the    *)
(* order they are written into the text.                                   *)
(***************************************************************************)
\* the characters of the recommendation texts of the rule catalog
Chars(s) ==
    CASE s = "Set minimum TLS version to 1.2 or higher using: az webapp config set --min-tls-version 1.2" ->
             <<"S", "e", "t", " ", "m", "i", "n", "i", "m", "u", "m", " ", "T", "L",
             "S", " ", "v", "e", "r", "s", "i", "o", "n", " ", "t", "o", " ", "1", ".",
             "2", " ", "o", "r", " ", "h", "i", "g", "h", "e", "r", " ", "u", "s", "i",
             "n", "g", ":", " ", "a", "z", " ", "w", "e", "b", "a", "p", "p", " ", "c",
             "o", "n", "f", "i", "g", " ", "s", "e", "t", " ", "-", "-", "m", "i", "n",
             "-", "t", "l", "s", "-", "v", "e", "r", "s", "i", "o", "n", " ", "1", ".",
             "2">>
      [] s = "Enable HTTPS Only using: az webapp update --https-only true" ->
             <<"E", "n", "a", "b", "l", "e", " ", "H", "T", "T", "P", "S", " ", "O",
             "n", "l", "y", " ", "u", "s", "i", "n", "g", ":", " ", "a", "z", " ", "w",
             "e", "b", "a", "p", "p", " ", "u", "p", "d", "a", "t", "e", " ", "-", "-",
             "h", "t", "t", "p", "s", "-", "o", "n", "l", "y", " ", "t", "r", "u",
             "e">>
      [] s = "Enable System-Assigned Managed Identity using: az webapp identity assign" ->
             <<"E", "n", "a", "b", "l", "e", " ", "S", "y", "s", "t", "e", "m", "-",
             "A", "s", "s", "i", "g", "n", "e", "d", " ", "M", "a", "n", "a", "g", "e",
             "d", " ", "I", "d", "e", "n", "t", "i", "t", "y", " ", "u", "s", "i", "n",
             "g", ":", " ", "a", "z", " ", "w", "e", "b", "a", "p", "p", " ", "i", "d",
             "e", "n", "t", "i", "t", "y", " ", "a", "s", "s", "i", "g", "n">>
      [] s = "Enable Always On using: az webapp config set --always-on true" ->
             <<"E", "n", "a", "b", "l", "e", " ", "A", "l", "w", "a", "y", "s", " ",
             "O", "n", " ", "u", "s", "i", "n", "g", ":", " ", "a", "z", " ", "w", "e",
             "b", "a", "p", "p", " ", "c", "o", "n", "f", "i", "g", " ", "s", "e", "t",
             " ", "-", "-", "a", "l", "w", "a", "y", "s", "-", "o", "n", " ", "t", "r",
             "u", "e">>
      [] s = "Disable remote debugging using: az webapp config set --remote-debugging-enabled false" ->
             <<"D", "i", "s", "a", "b", "l", "e", " ", "r", "e", "m", "o", "t", "e",
             " ", "d", "e", "b", "u", "g", "g", "i", "n", "g", " ", "u", "s", "i", "n",
             "g", ":", " ", "a", "z", " ", "w", "e", "b", "a", "p", "p", " ", "c", "o",
             "n", "f", "i", "g", " ", "s", "e", "t", " ", "-", "-", "r", "e", "m", "o",
             "t", "e", "-", "d", "e", "b", "u", "g", "g", "i", "n", "g", "-", "e", "n",
             "a", "b", "l", "e", "d", " ", "f", "a", "l", "s", "e">>
      [] s = "Set FTPS to FtpsOnly or Disabled: az webapp config set --ftps-state FtpsOnly" ->
             <<"S", "e", "t", " ", "F", "T", "P", "S", " ", "t", "o", " ", "F", "t",
             "p", "s", "O", "n", "l", "y", " ", "o", "r", " ", "D", "i", "s", "a", "b",
             "l", "e", "d", ":", " ", "a", "z", " ", "w", "e", "b", "a", "p", "p", " ",
             "c", "o", "n", "f", "i", "g", " ", "s", "e", "t", " ", "-", "-", "f", "t",
             "p", "s", "-", "s", "t", "a", "t", "e", " ", "F", "t", "p", "s", "O", "n",
             "l", "y">>
      [] s = "Enable HTTP/2 using: az webapp config set --http20-enabled true" ->
             <<"E", "n", "a", "b", "l", "e", " ", "H", "T", "T", "P", "/", "2", " ",
             "u", "s", "i", "n", "g", ":", " ", "a", "z", " ", "w", "e", "b", "a", "p",
             "p", " ", "c", "o", "n", "f", "i", "g", " ", "s", "e", "t", " ", "-", "-",
             "h", "t", "t", "p", "2", "0", "-", "e", "n", "a", "b", "l", "e", "d", " ",
             "t", "r", "u", "e">>
      [] s = "Consider setting to Required if mutual TLS authentication is needed: az webapp update --client-cert-mode Required" ->
             <<"C", "o", "n", "s", "i", "d", "e", "r", " ", "s", "e", "t", "t", "i",
             "n", "g", " ", "t", "o", " ", "R", "e", "q", "u", "i", "r", "e", "d", " ",
             "i", "f", " ", "m", "u", "t", "u", "a", "l", " ", "T", "L", "S", " ", "a",
             "u", "t", "h", "e", "n", "t", "i", "c", "a", "t", "i", "o", "n", " ", "i",
             "s", " ", "n", "e", "e", "d", "e", "d", ":", " ", "a", "z", " ", "w", "e",
             "b", "a", "p", "p", " ", "u", "p", "d", "a", "t", "e", " ", "-", "-", "c",
             "l", "i", "e", "n", "t", "-", "c", "e", "r", "t", "-", "m", "o", "d", "e",
             " ", "R", "e", "q", "u", "i", "r", "e", "d">>
      [] s = "Enable diagnostic logs using: az webapp log config --application-logging filesystem --level information" ->
             <<"E", "n", "a", "b", "l", "e", " ", "d", "i", "a", "g", "n", "o", "s",
             "t", "i", "c", " ", "l", "o", "g", "s", " ", "u", "s", "i", "n", "g", ":",
             " ", "a", "z", " ", "w", "e", "b", "a", "p", "p", " ", "l", "o", "g", " ",
             "c", "o", "n", "f", "i", "g", " ", "-", "-", "a", "p", "p", "l", "i", "c",
             "a", "t", "i", "o", "n", "-", "l", "o", "g", "g", "i", "n", "g", " ", "f",
             "i", "l", "e", "s", "y", "s", "t", "e", "m", " ", "-", "-", "l", "e", "v",
             "e", "l", " ", "i", "n", "f", "o", "r", "m", "a", "t", "i", "o", "n">>
      [] s = "Configure automated backups for disaster recovery: az webapp config backup create" ->
             <<"C", "o", "n", "f", "i", "g", "u", "r", "e", " ", "a", "u", "t", "o",
             "m", "a", "t", "e", "d", " ", "b", "a", "c", "k", "u", "p", "s", " ", "f",
             "o", "r", " ", "d", "i", "s", "a", "s", "t", "e", "r", " ", "r", "e", "c",
             "o", "v", "e", "r", "y", ":", " ", "a", "z", " ", "w", "e", "b", "a", "p",
             "p", " ", "c", "o", "n", "f", "i", "g", " ", "b", "a", "c", "k", "u", "p",
             " ", "c", "r", "e", "a", "t", "e">>
      [] s = "Create a staging slot: az webapp deployment slot create --slot staging" ->
             <<"C", "r", "e", "a", "t", "e", " ", "a", " ", "s", "t", "a", "g", "i",
             "n", "g", " ", "s", "l", "o", "t", ":", " ", "a", "z", " ", "w", "e", "b",
             "a", "p", "p", " ", "d", "e", "p", "l", "o", "y", "m", "e", "n", "t", " ",
             "s", "l", "o", "t", " ", "c", "r", "e", "a", "t", "e", " ", "-", "-", "s",
             "l", "o", "t", " ", "s", "t", "a", "g", "i", "n", "g">>
      [] s = "Upgrade to at least Basic tier for production workloads: az appservice plan update --sku B1" ->
             <<"U", "p", "g", "r", "a", "d", "e", " ", "t", "o", " ", "a", "t", " ",
             "l", "e", "a", "s", "t", " ", "B", "a", "s", "i", "c", " ", "t", "i", "e",
             "r", " ", "f", "o", "r", " ", "p", "r", "o", "d", "u", "c", "t", "i", "o",
             "n", " ", "w", "o", "r", "k", "l", "o", "a", "d", "s", ":", " ", "a", "z",
             " ", "a", "p", "p", "s", "e", "r", "v", "i", "c", "e", " ", "p", "l", "a",
             "n", " ", "u", "p", "d", "a", "t", "e", " ", "-", "-", "s", "k", "u", " ",
             "B", "1">>
      [] s = "Scale to at least 2 instances or enable autoscaling for production apps" ->
             <<"S", "c", "a", "l", "e", " ", "t", "o", " ", "a", "t", " ", "l", "e",
             "a", "s", "t", " ", "2", " ", "i", "n", "s", "t", "a", "n", "c", "e", "s",
             " ", "o", "r", " ", "e", "n", "a", "b", "l", "e", " ", "a", "u", "t", "o",
             "s", "c", "a", "l", "i", "n", "g", " ", "f", "o", "r", " ", "p", "r", "o",
             "d", "u", "c", "t", "i", "o", "n", " ", "a", "p", "p", "s">>
      [] s = "Consider enabling zone redundancy for critical production apps" ->
             <<"C", "o", "n", "s", "i", "d", "e", "r", " ", "e", "n", "a", "b", "l",
             "i", "n", "g", " ", "z", "o", "n", "e", " ", "r", "e", "d", "u", "n", "d",
             "a", "n", "c", "y", " ", "f", "o", "r", " ", "c", "r", "i", "t", "i", "c",
             "a", "l", " ", "p", "r", "o", "d", "u", "c", "t", "i", "o", "n", " ", "a",
             "p", "p", "s">>
      [] s = "Consider VNet integration for secure access to backend resources: az webapp vnet-integration add" ->
             <<"C", "o", "n", "s", "i", "d", "e", "r", " ", "V", "N", "e", "t", " ",
             "i", "n", "t", "e", "g", "r", "a", "t", "i", "o", "n", " ", "f", "o", "r",
             " ", "s", "e", "c", "u", "r", "e", " ", "a", "c", "c", "e", "s", "s", " ",
             "t", "o", " ", "b", "a", "c", "k", "e", "n", "d", " ", "r", "e", "s", "o",
             "u", "r", "c", "e", "s", ":", " ", "a", "z", " ", "w", "e", "b", "a", "p",
             "p", " ", "v", "n", "e", "t", "-", "i", "n", "t", "e", "g", "r", "a", "t",
             "i", "o", "n", " ", "a", "d", "d">>
      [] s = "Configure IP restrictions to limit access: az webapp config access-restriction add" ->
             <<"C", "o", "n", "f", "i", "g", "u", "r", "e", " ", "I", "P", " ", "r",
             "e", "s", "t", "r", "i", "c", "t", "i", "o", "n", "s", " ", "t", "o", " ",
             "l", "i", "m", "i", "t", " ", "a", "c", "c", "e", "s", "s", ":", " ", "a",
             "z", " ", "w", "e", "b", "a", "p", "p", " ", "c", "o", "n", "f", "i", "g",
             " ", "a", "c", "c", "e", "s", "s", "-", "r", "e", "s", "t", "r", "i", "c",
             "t", "i", "o", "n", " ", "a", "d", "d">>
      [] s = "Configure SCM IP restrictions or use main site restrictions: az webapp config access-restriction add --scm-site true" ->
             <<"C", "o", "n", "f", "i", "g", "u", "r", "e", " ", "S", "C", "M", " ",
             "I", "P", " ", "r", "e", "s", "t", "r", "i", "c", "t", "i", "o", "n", "s",
             " ", "o", "r", " ", "u", "s", "e", " ", "m", "a", "i", "n", " ", "s", "i",
             "t", "e", " ", "r", "e", "s", "t", "r", "i", "c", "t", "i", "o", "n", "s",
             ":", " ", "a", "z", " ", "w", "e", "b", "a", "p", "p", " ", "c", "o", "n",
             "f", "i", "g", " ", "a", "c", "c", "e", "s", "s", "-", "r", "e", "s", "t",
             "r", "i", "c", "t", "i", "o", "n", " ", "a", "d", "d", " ", "-", "-", "s",
             "c", "m", "-", "s", "i", "t", "e", " ", "t", "r", "u", "e">>
      [] s = "If the app requires authentication, enable App Service Authentication: az webapp auth update --enabled true" ->
             <<"I", "f", " ", "t", "h", "e", " ", "a", "p", "p", " ", "r", "e", "q",
             "u", "i", "r", "e", "s", " ", "a", "u", "t", "h", "e", "n", "t", "i", "c",
             "a", "t", "i", "o", "n", ",", " ", "e", "n", "a", "b", "l", "e", " ", "A",
             "p", "p", " ", "S", "e", "r", "v", "i", "c", "e", " ", "A", "u", "t", "h",
             "e", "n", "t", "i", "c", "a", "t", "i", "o", "n", ":", " ", "a", "z", " ",
             "w", "e", "b", "a", "p", "p", " ", "a", "u", "t", "h", " ", "u", "p", "d",
             "a", "t", "e", " ", "-", "-", "e", "n", "a", "b", "l", "e", "d", " ", "t",
             "r", "u", "e">>
      [] s = "Add SSL certificates for custom domains: az webapp config ssl upload" ->
             <<"A", "d", "d", " ", "S", "S", "L", " ", "c", "e", "r", "t", "i", "f",
             "i", "c", "a", "t", "e", "s", " ", "f", "o", "r", " ", "c", "u", "s", "t",
             "o", "m", " ", "d", "o", "m", "a", "i", "n", "s", ":", " ", "a", "z", " ",
             "w", "e", "b", "a", "p", "p", " ", "c", "o", "n", "f", "i", "g", " ", "s",
             "s", "l", " ", "u", "p", "l", "o", "a", "d">>
      [] s = "Update to a supported runtime version: az webapp config set --linux-fx-version or --windows-fx-version" ->
             <<"U", "p", "d", "a", "t", "e", " ", "t", "o", " ", "a", " ", "s", "u",
             "p", "p", "o", "r", "t", "e", "d", " ", "r", "u", "n", "t", "i", "m", "e",
             " ", "v", "e", "r", "s", "i", "o", "n", ":", " ", "a", "z", " ", "w", "e",
             "b", "a", "p", "p", " ", "c", "o", "n", "f", "i", "g", " ", "s", "e", "t",
             " ", "-", "-", "l", "i", "n", "u", "x", "-", "f", "x", "-", "v", "e", "r",
             "s", "i", "o", "n", " ", "o", "r", " ", "-", "-", "w", "i", "n", "d", "o",
             "w", "s", "-", "f", "x", "-", "v", "e", "r", "s", "i", "o", "n">>
      [] s = "Configure health check path: az webapp config set --health-check-path /health" ->
             <<"C", "o", "n", "f", "i", "g", "u", "r", "e", " ", "h", "e", "a", "l",
             "t", "h", " ", "c", "h", "e", "c", "k", " ", "p", "a", "t", "h", ":", " ",
             "a", "z", " ", "w", "e", "b", "a", "p", "p", " ", "c", "o", "n", "f", "i",
             "g", " ", "s", "e", "t", " ", "-", "-", "h", "e", "a", "l", "t", "h", "-",
             "c", "h", "e", "c", "k", "-", "p", "a", "t", "h", " ", "/", "h", "e", "a",
             "l", "t", "h">>
      [] s = "Consider enabling auto-heal with appropriate triggers and actions" ->
             <<"C", "o", "n", "s", "i", "d", "e", "r", " ", "e", "n", "a", "b", "l",
             "i", "n", "g", " ", "a", "u", "t", "o", "-", "h", "e", "a", "l", " ", "w",
             "i", "t", "h", " ", "a", "p", "p", "r", "o", "p", "r", "i", "a", "t", "e",
             " ", "t", "r", "i", "g", "g", "e", "r", "s", " ", "a", "n", "d", " ", "a",
             "c", "t", "i", "o", "n", "s">>
      [] s = "Restrict CORS to specific origins: az webapp cors remove --allowed-origins * && az webapp cors add --allowed-origins https://example.com" ->
             <<"R", "e", "s", "t", "r", "i", "c", "t", " ", "C", "O", "R", "S", " ",
             "t", "o", " ", "s", "p", "e", "c", "i", "f", "i", "c", " ", "o", "r", "i",
             "g", "i", "n", "s", ":", " ", "a", "z", " ", "w", "e", "b", "a", "p", "p",
             " ", "c", "o", "r", "s", " ", "r", "e", "m", "o", "v", "e", " ", "-", "-",
             "a", "l", "l", "o", "w", "e", "d", "-", "o", "r", "i", "g", "i", "n", "s",
             " ", "*", " ", "&", "&", " ", "a", "z", " ", "w", "e", "b", "a", "p", "p",
             " ", "c", "o", "r", "s", " ", "a", "d", "d", " ", "-", "-", "a", "l", "l",
             "o", "w", "e", "d", "-", "o", "r", "i", "g", "i", "n", "s", " ", "h", "t",
             "t", "p", "s", ":", "/", "/", "e", "x", "a", "m", "p", "l", "e", ".", "c",
             "o", "m">>
      [] OTHER -> <<>>

\* the str literals of generate_remediation_guide
Literal ==
    [min_tls_version |-> <<"m", "i", "n", "-", "t", "l", "s", "-", "v", "e", "r", "s", "i", "o", "n">>,
     https_only |-> <<"h", "t", "t", "p", "s", "-", "o", "n", "l", "y">>,
     remote_debugging |->
         <<"r", "e", "m", "o", "t", "e", "-", "d", "e", "b", "u", "g", "g", "i", "n", "g">>,
     resource_group |->
         <<"<", "r", "e", "s", "o", "u", "r", "c", "e", "-", "g", "r", "o", "u", "p", ">">>]

\* f"{n/total*100:.1f}": the percentage in tenths, the nearest one, the even
\* one of two equally near
Percentage(n, total) ==
    LET q == (n * 1000) \div total
        r == (n * 1000) % total
    IN  IF 2 * r > total \/ (2 * r = total /\ q % 2 = 1) THEN q + 1 ELSE q

\* [f for f in findings_data['findings'] if f['severity'] == severity]
OfSeverity(findings_data, severity) ==
    SelectSeq(findings_data.findings, LAMBDA f : f.severity = severity)

\* the keys of by_title, in the order they were inserted: for each title the
\* position in fs of the first finding that has it
TitleKeys(fs) ==
    SelectSeq([i \in 1..Len(fs) |-> i],
              LAMBDA i : \A j \in 1..(i - 1) : fs[j].title # fs[i].title)

\* by_title[title]: the subjects of the findings of fs with this title
by_title(fs, title) ==
    LET same == SelectSeq(fs, LAMBDA f : f.title = title)
    IN  [i \in 1..Len(same) |-> same[i].appService]

\* generate_executive_summary: the document, or ZeroDivisionError when the
\* percentages are taken of zero findings
generate_executive_summary(findings_data, raw_data) ==
    LET count == Len(Items(Get(raw_data, "appServices", EmptyList)))
        total == findings_data.totalFindings
        tally == findings_data.findingsBySeverity
        \* the blocks of the Critical or High section
        Blocks(fs) ==
            LET keys == TitleKeys(fs)
            IN  [k \in 1..Len(keys) |->
                    LET example == fs[keys[k]]
                    IN  [title |-> example.title,
                         affected |-> Len(by_title(fs, example.title)),
                         of |-> count,
                         issue |-> example.description,
                         recommendation |-> example.recommendation]]
    IN  IF total = 0 THEN Raise
        ELSE Emit([subscription |-> findings_data.subscription,
                   assessmentDate |-> findings_data.assessmentDate,
                   appServicesAssessed |-> count,
                   totalFindings |-> total,
                   statistics |->
                       [Critical |-> <<tally.Critical, Percentage(tally.Critical, total)>>,
                        High |-> <<tally.High, Percentage(tally.High, total)>>,
                        Medium |-> <<tally.Medium, Percentage(tally.Medium, total)>>,
                        Low |-> <<tally.Low, Percentage(tally.Low, total)>>],
                   critical |-> Blocks(OfSeverity(findings_data, CRITICAL)),
                   high |-> Blocks(OfSeverity(findings_data, HIGH))])

\* app_rg_map can be built: every resource has the keys 'name' and
\* 'resourceGroup', and a name that can be a key of a dict
Mappable(apps) ==
    \A i \in 1..Len(apps) :
        /\ IsDict(apps[i])
        /\ {"name", "resourceGroup"} \subseteq DOMAIN apps[i].d
        /\ ~IsList(apps[i].d["name"]) /\ ~IsDict(apps[i].d["name"])

\* app_rg_map.get(app_name, '<resource-group>'): the group of the last resource
\* of that name
app_rg_map(apps, name) ==
    LET named == SelectSeq(apps, LAMBDA app : app.d["name"] = name)
    IN  IF named = <<>> THEN PStr(Literal.resource_group)
        ELSE named[Len(named)].d["resourceGroup"]

\* the command line written for one affected service
CommandLine(option, rg, name) ==
    CASE option = "min-tls-version" ->
             <<"az webapp config set --resource-group ", rg, " --name ", name,
               " --min-tls-version 1.2">>
      [] option = "https-only" ->
             <<"az webapp update --resource-group ", rg, " --name ", name, " --https-only true">>
      [] option = "remote-debugging" ->
             <<"az webapp config set --resource-group ", rg, " --name ", name,
               " --remote-debugging-enabled false">>

\* the if/elif of a section that has no line for remote debugging
Command_twoOptions(severity, recommendation, rg, name) ==
    IF severity = CRITICAL /\ Contains(Chars(recommendation), Literal.min_tls_version)
    THEN <<CommandLine("min-tls-version", rg, name)>>
    ELSE IF Contains(Chars(recommendation), Literal.https_only)
    THEN <<CommandLine("https-only", rg, name)>>
    ELSE <<>>

\* the if/elif of the Critical and of the High section, for one affected
\* service: the line appended to the command block, if any
Command(severity, recommendation, rg, name) ==
    IF severity = CRITICAL
    THEN IF Contains(Chars(recommendation), Literal.min_tls_version)
         THEN <<CommandLine("min-tls-version", rg, name)>>
         ELSE IF Contains(Chars(recommendation), Literal.https_only)
         THEN <<CommandLine("https-only", rg, name)>>
         ELSE <<>>
    ELSE IF Contains(Chars(recommendation), Literal.https_only)
         THEN <<CommandLine("https-only", rg, name)>>
         ELSE IF Contains(Chars(recommendation), Literal.remote_debugging)
         THEN <<CommandLine("remote-debugging", rg, name)>>
         ELSE <<>>

\* severity_order.get(x['severity'], 4)
severity_order(severity) ==
    CASE severity = CRITICAL -> 0
      [] severity = HIGH -> 1
      [] severity = MEDIUM -> 2
      [] severity = LOW -> 3
      [] OTHER -> 4

\* a sort that puts the least severe finding first
SortBySeverity_ascending(fs) ==
    Flatten([r \in 1..5 |-> SelectSeq(fs, LAMBDA f : severity_order(f.severity) = 5 - r)])

\* findings.sort(key=...): a stable sort on the five ranks
SortBySeverity(fs) ==
    Flatten([r \in 1..5 |-> SelectSeq(fs, LAMBDA f : severity_order(f.severity) = r - 1)])

\* sorted(keys), for keys that can be compared: the smallest key, then the
\* others sorted
RECURSIVE SortedKeys(_)
SortedKeys(keys) ==
    IF keys = {} THEN <<>>
    ELSE LET first == CHOOSE k \in keys : \A other \in keys \ {k} : StrLess(k.s, other.s)
         IN  <<first>> \o SortedKeys(keys \ {first})

\* one "### app_name" section: the findings of the subject, sorted and numbered
ServiceSection(fs, apps, name) ==
    LET sorted == SortBySeverity(SelectSeq(fs, LAMBDA f : f.appService = name))
    IN  [app_name |-> name,
         resourceGroup |-> app_rg_map(apps, name),
         count |-> Len(sorted),
         findings |-> [i \in 1..Len(sorted) |->
             [number |-> i, title |-> sorted[i].title, severity |-> sorted[i].severity,
              issue |-> sorted[i].description, fix |-> sorted[i].recommendation,
              reference |-> IF sorted[i].reference # "" THEN <<sorted[i].reference>> ELSE <<>>]]]

\* generate_remediation_guide: the document and findings_data as the function
\* leaves it, or KeyError / TypeError
generate_remediation_guide(findings_data, raw_data) ==
    LET apps == Items(Get(raw_data, "appServices", EmptyList))
        fs == findings_data.findings
        \* apps.keys(): the subjects of the findings; comparing them is a
        \* TypeError unless they are all str or there is at most one
        subjects == {fs[i].appService : i \in 1..Len(fs)}
        sortable == Cardinality(subjects) <= 1 \/ \A k \in subjects : IsStr(k)
        names == SortedKeys(subjects)
        \* the blocks of the "Fix All ..." section of a severity: title, number
        \* of affected services, recommendation and the command block
        Blocks(severity) ==
            LET section == OfSeverity(findings_data, severity)
                keys == TitleKeys(section)
            IN  [k \in 1..Len(keys) |->
                    LET example == section[keys[k]]
                        apps_list == by_title(section, example.title)
                    IN  [title |-> example.title,
                         affected |-> Len(apps_list),
                         recommendation |-> example.recommendation,
                         commands |->
                             Flatten([i \in 1..Len(apps_list) |->
                                 Command(severity, example.recommendation,
                                         app_rg_map(apps, apps_list[i]), apps_list[i])])]]
    IN  IF ~Mappable(apps) \/ ~sortable THEN Raise
        ELSE Emit([critical |-> Blocks(CRITICAL),
                   high |-> Blocks(HIGH),
                   services |-> [i \in 1..Len(names) |-> ServiceSection(fs, apps, names[i])],
                   findings_data |-> findings_data])

\* main() of generate-docs.py, run when the analyzer's process is over: without
\* a findings file it prints an error and exits
DocsMain(a) ==
    /\ pc[a] \in {"saved", "raised"}
    /\ docs_pc[a] = "start"
    /\ docs_pc' = [docs_pc EXCEPT ![a] = IF doc[a] = NoDoc THEN "exit" ELSE "main"]
    /\ UNCHANGED <<data, pc, idx, app_name, findings, origin, raised_in, rets, doc,
                   docs_raised_in, exec_summary, remediation>>

\* exec_summary = generate_executive_summary(...), written to EXECUTIVE-SUMMARY.md
GenerateExecutiveSummary(a) ==
    /\ docs_pc[a] = "main"
    /\ LET result == generate_executive_summary(doc[a], data)
       IN  IF result.raised
           THEN /\ docs_pc' = [docs_pc EXCEPT ![a] = "raised"]
                /\ docs_raised_in' =
                       [docs_raised_in EXCEPT ![a] = "generate_executive_summary"]
                /\ UNCHANGED exec_summary
           ELSE /\ exec_summary' = [exec_summary EXCEPT ![a] = result.out]
                /\ docs_pc' = [docs_pc EXCEPT ![a] = "exec_file"]
                /\ UNCHANGED docs_raised_in
    /\ UNCHANGED <<data, pc, idx, app_name, findings, origin, raised_in, rets, doc, remediation>>

\* remediation = generate_remediation_guide(...), written to REMEDIATION-GUIDE.md
GenerateRemediationGuide(a) ==
    /\ docs_pc[a] = "exec_file"
    /\ LET result == generate_remediation_guide(doc[a], data)
       IN  IF result.raised
           THEN /\ docs_pc' = [docs_pc EXCEPT ![a] = "raised"]
                /\ docs_raised_in' =
                       [docs_raised_in EXCEPT ![a] = "generate_remediation_guide"]
                /\ UNCHANGED remediation
           ELSE /\ remediation' = [remediation EXCEPT ![a] = result.out]
                /\ docs_pc' = [docs_pc EXCEPT ![a] = "remediation_file"]
                /\ UNCHANGED docs_raised_in
    /\ UNCHANGED <<data, pc, idx, app_name, findings, origin, raised_in, rets, doc, exec_summary>>


(***************************************************************************)
(* Snapshots: the documents json.load may hand to main().  A resource      *)
(* record is built from a profile that gives each field the rules read a   *)
(* value or leaves it out of the record.                                   *)
(***************************************************************************)
MaxApps == 2
MaxCapacity == 2

\* the strings the sample records carry
Sample ==
    [app1 |-> <<"a", "p", "p", "1">>,
     app2 |-> <<"a", "p", "p", "2">>,
     sub |-> <<"s", "u", "b", "-", "1">>,
     rg1 |-> <<"r", "g", "-", "1">>,
     rg2 |-> <<"r", "g", "-", "2">>,
     tls_1_0 |-> <<"1", ".", "0">>,
     tls_1_1 |-> <<"1", ".", "1">>,
     tls_1_3 |-> <<"1", ".", "3">>,
     tls_1_10 |-> <<"1", ".", "1", "0">>,
     tls_1 |-> <<"1">>,
     tls_TLS1_2 |-> <<"T", "L", "S", "1", ".", "2">>,
     AllAllowed |-> <<"A", "l", "l", "A", "l", "l", "o", "w", "e", "d">>,
     FtpsOnly |-> <<"F", "t", "p", "s", "O", "n", "l", "y">>,
     Disabled |-> <<"D", "i", "s", "a", "b", "l", "e", "d">>,
     Free |-> <<"F", "r", "e", "e">>,
     SHARED |-> <<"S", "H", "A", "R", "E", "D">>,
     Basic |-> <<"B", "a", "s", "i", "c">>,
     Standard |-> <<"S", "t", "a", "n", "d", "a", "r", "d">>,
     Premium |-> <<"P", "r", "e", "m", "i", "u", "m">>,
     PremiumV2 |-> <<"P", "r", "e", "m", "i", "u", "m", "V", "2">>,
     optional |-> <<"o", "p", "t", "i", "o", "n", "a", "l">>,
     Required |-> <<"R", "e", "q", "u", "i", "r", "e", "d">>,
     SystemAssigned |-> <<"S", "y", "s", "t", "e", "m", "A", "s", "s", "i", "g", "n", "e", "d">>,
     Error |-> <<"E", "r", "r", "o", "r">>,
     Deny |-> <<"D", "e", "n", "y">>,
     cidr |-> <<"1", "0", ".", "0", ".", "0", ".", "0", "/", "8">>,
     host_default |-> <<"a", "p", "p", "1", ".", "a", "z", "u", "r", "e", "w", "e", "b", "s", "i", "t", "e", "s", ".", "n", "e", "t">>,
     host_custom |-> <<"w", "w", "w", ".", "c", "o", "n", "t", "o", "s", "o", ".", "c", "o", "m">>,
     node18 |-> <<"N", "O", "D", "E", "|", "1", "8", "-", "l", "t", "s">>,
     node14 |-> <<"N", "O", "D", "E", "|", "1", "4", "-", "l", "t", "s">>,
     python36 |-> <<"p", "y", "t", "h", "o", "n", "|", "3", ".", "6">>,
     twoStacks |-> <<"P", "H", "P", "|", "7", ".", "2", ",", "N", "O", "D", "E", "|", "1", "2">>,
     php72 |-> <<"P", "H", "P", "|", "7", ".", "2">>,
     php80 |-> <<"P", "H", "P", "|", "8", ".", "0">>,
     dotnet2 |-> <<"d", "o", "t", "n", "e", "t", "c", "o", "r", "e", "|", "2", ".", "1">>,
     dotnet6 |-> <<"D", "O", "T", "N", "E", "T", "|", "6", ".", "0">>,
     health |-> <<"/", "h", "e", "a", "l", "t", "h">>,
     origin |-> <<"h", "t", "t", "p", "s", ":", "/", "/", "a", ".", "c", "o", "m">>,
     backup |-> <<"d", "a", "i", "l", "y">>,
     staging |-> <<"s", "t", "a", "g", "i", "n", "g">>,
     vnet |-> <<"v", "n", "e", "t", "-", "1">>,
     thumb |-> <<"A", "1", "B", "2">>]

\* a key that the record does not have
Absent == [t |-> "absent"]

\* the dict with the keys of r that are given a value
MkDict(r) == PDict([k \in {x \in DOMAIN r : r[x] # Absent} |-> r[k]])

\* a sub-structure: left out of its parent when none of its keys is given
Sub(r) == IF \A k \in DOMAIN r : r[k] = Absent THEN Absent ELSE MkDict(r)

Named(s) == PList(<<PDict([name |-> PStr(s)])>>)

AllowAny == PDict([action |-> PStr(S_Allow), ipAddress |-> PStr(S_Any)])
AllowCidr == PDict([action |-> PStr(S_Allow), ipAddress |-> PStr(Sample.cidr)])
DenyAny == PDict([action |-> PStr(Sample.Deny), ipAddress |-> PStr(S_Any)])
DefaultDomain == PDict([hostName |-> PStr(Sample.host_default)])
CustomDomain == PDict([hostName |-> PStr(Sample.host_custom)])
Cors(origins) == PDict([allowedOrigins |-> PList(origins)])
LogTarget(key, v) == IF v = Absent THEN Absent ELSE PDict(key :> v)

Lists(s) == {Absent, EmptyList, Named(s)}

\* the values each field takes in the sample records
Options ==
    [Flags |->
        {Absent, PTrue, PFalse},
     TlsVersions |->
        {Absent, None, EmptyStr, PStr(Sample.tls_1_0), PStr(Sample.tls_1_1), PStr(S_1_2),
         PStr(Sample.tls_1_3), PStr(Sample.tls_1_10), PStr(Sample.tls_1), PStr(Sample.tls_TLS1_2)},
     FtpsStates |->
        {Absent, EmptyStr, PStr(Sample.AllAllowed), PStr(S_allallowed), PStr(Sample.FtpsOnly),
         PStr(Sample.Disabled)},
     Tiers |->
        {Absent, EmptyStr, PStr(Sample.Free), PStr(S_free), PStr(Sample.SHARED), PStr(Sample.Basic),
        PStr(Sample.Standard), PStr(Sample.Premium), PStr(Sample.PremiumV2), PStr(S_premiumv3)},
     GateTiers |->
        {Absent, PStr(Sample.Free), PStr(Sample.Standard)},
     Capacities |->
        {Absent} \cup {PInt(i) : i \in 1..MaxCapacity},
     CertModes |->
        {Absent, PStr(S_Optional), PStr(Sample.optional), PStr(Sample.Required)},
     Identities |->
        {Absent, EmptyDict, PDict([type |-> PStr(S_None)]), PDict([type |-> PStr(Sample.SystemAssigned)])},
     LogLevels |->
        {Absent, PStr(S_Off), PStr(Sample.Error)},
     IpLists |->
        {Absent, EmptyList, PList(<<AllowAny>>), PList(<<AllowAny, AllowCidr>>), PList(<<DenyAny>>)},
     DomainLists |->
        {Absent, EmptyList, PList(<<DefaultDomain>>), PList(<<CustomDomain>>),
        PList(<<DefaultDomain, CustomDomain>>), PList(<<EmptyDict>>)},
     ConfigFx |->
        {Absent, EmptyStr, PStr(Sample.node18), PStr(Sample.node14), PStr(Sample.python36),
         PStr(Sample.twoStacks)},
     RuntimeLinuxFx |->
        {Absent, PStr(Sample.php72), PStr(Sample.php80)},
     RuntimeWindowsFx |->
        {Absent, PStr(Sample.dotnet2), PStr(Sample.dotnet6)},
     HealthPaths |->
        {Absent, EmptyStr, PStr(Sample.health)},
     CorsConfigs |->
        {Absent, None, EmptyDict, Cors(<<>>), Cors(<<PStr(S_star)>>), Cors(<<PStr(Sample.origin)>>),
        Cors(<<PStr(S_star), PStr(Sample.origin)>>), Cors(<<PStr(Sample.origin), PStr(S_star), PStr(S_star)>>)}]

\* the profile that gives no field
NoFields ==
    [name |-> Absent, minTls |-> Absent,
     tlsAlwaysOn |-> Absent, rtAlwaysOn |-> Absent,
     tlsDebug |-> Absent, rtDebug |-> Absent,
     tlsFtps |-> Absent, rtFtps |-> Absent,
     tlsHttp20 |-> Absent, rtHttp20 |-> Absent,
     httpsOnly |-> Absent, certEnabled |-> Absent, certMode |-> Absent,
     configFx |-> Absent, rtLinuxFx |-> Absent, rtWindowsFx |-> Absent,
     identity |-> Absent,
     appFsLevel |-> Absent, appBlobLevel |-> Absent,
     httpFsEnabled |-> Absent, httpBlobEnabled |-> Absent,
     backup |-> Absent, slots |-> Absent,
     tier |-> Absent, capacity |-> Absent, zone |-> Absent,
     vnet |-> Absent, ipMain |-> Absent, ipScm |-> Absent, ipUseMain |-> Absent,
     authEnabled |-> Absent, domains |-> Absent, certs |-> Absent,
     healthPath |-> Absent, autoHeal |-> Absent, cors |-> Absent]

\* the resource record of a profile, with the keys the rules read
Record(p) ==
    MkDict(
      [name |-> p.name,
       tlsConfig |-> Sub([minTlsVersion |-> p.minTls, alwaysOn |-> p.tlsAlwaysOn,
                          remoteDebuggingEnabled |-> p.tlsDebug,
                          ftpsState |-> p.tlsFtps, http20Enabled |-> p.tlsHttp20]),
       runtimeConfig |-> Sub([alwaysOn |-> p.rtAlwaysOn,
                              remoteDebuggingEnabled |-> p.rtDebug,
                              ftpsState |-> p.rtFtps, http20Enabled |-> p.rtHttp20,
                              linuxFxVersion |-> p.rtLinuxFx,
                              windowsFxVersion |-> p.rtWindowsFx,
                              healthCheckPath |-> p.healthPath,
                              autoHealEnabled |-> p.autoHeal, cors |-> p.cors]),
       config |-> Sub([httpsOnly |-> p.httpsOnly, clientCertEnabled |-> p.certEnabled,
                       clientCertMode |-> p.certMode, linuxFxVersion |-> p.configFx]),
       identity |-> p.identity,
       diagnosticLogs |->
           Sub([applicationLogsConfiguration |->
                    Sub([fileSystem |-> LogTarget("level", p.appFsLevel),
                         azureBlobStorage |-> LogTarget("level", p.appBlobLevel)]),
                httpLogsConfiguration |->
                    Sub([fileSystem |-> LogTarget("enabled", p.httpFsEnabled),
                         azureBlobStorage |-> LogTarget("enabled", p.httpBlobEnabled)])]),
       backupConfig |-> p.backup,
       deploymentSlots |-> p.slots,
       appServicePlan |-> Sub([sku |-> Sub([tier |-> p.tier, capacity |-> p.capacity]),
                               zoneRedundant |-> p.zone]),
       vnetIntegration |-> p.vnet,
       ipRestrictions |-> Sub([ipSecurityRestrictions |-> p.ipMain,
                               scmIpSecurityRestrictions |-> p.ipScm,
                               scmIpSecurityRestrictionsUseMain |-> p.ipUseMain]),
       authConfig |-> Sub([enabled |-> p.authEnabled]),
       customDomains |-> p.domains,
       sslCertificates |-> p.certs])


\* records in which every field is left out or has its documented type; one
\* concern is varied at a time, the tier-gated ones together with the tier
WideProfiles ==
    {[NoFields EXCEPT !.minTls = v] : v \in Options.TlsVersions}
    \cup {[NoFields EXCEPT !.tlsAlwaysOn = x, !.rtAlwaysOn = y, !.tier = t] :
              x \in Options.Flags, y \in Options.Flags, t \in Options.GateTiers}
    \cup {[NoFields EXCEPT !.tlsDebug = x, !.rtDebug = y] : x \in Options.Flags, y \in Options.Flags}
    \cup {[NoFields EXCEPT !.tlsFtps = x, !.rtFtps = y] : x \in Options.FtpsStates, y \in Options.FtpsStates}
    \cup {[NoFields EXCEPT !.tlsHttp20 = x, !.rtHttp20 = y] : x \in Options.Flags, y \in Options.Flags}
    \cup {[NoFields EXCEPT !.httpsOnly = x] : x \in Options.Flags}
    \cup {[NoFields EXCEPT !.certEnabled = x, !.certMode = y] : x \in Options.Flags, y \in Options.CertModes}
    \cup {[NoFields EXCEPT !.identity = x] : x \in Options.Identities}
    \cup {[NoFields EXCEPT !.appFsLevel = w, !.appBlobLevel = x,
                           !.httpFsEnabled = y, !.httpBlobEnabled = z] :
              w \in Options.LogLevels, x \in Options.LogLevels, y \in Options.Flags, z \in Options.Flags}
    \cup {[NoFields EXCEPT !.tier = t, !.backup = x, !.slots = y] :
              t \in Options.Tiers, x \in Lists(Sample.backup), y \in Lists(Sample.staging)}
    \cup {[NoFields EXCEPT !.tier = t, !.capacity = c, !.zone = z, !.healthPath = h] :
              t \in Options.Tiers, c \in Options.Capacities, z \in Options.Flags, h \in Options.HealthPaths}
    \cup {[NoFields EXCEPT !.vnet = x] : x \in Lists(Sample.vnet)}
    \cup {[NoFields EXCEPT !.ipMain = x, !.ipScm = y, !.ipUseMain = z] :
              x \in Options.IpLists, y \in Options.IpLists, z \in Options.Flags}
    \cup {[NoFields EXCEPT !.authEnabled = x] : x \in Options.Flags}
    \cup {[NoFields EXCEPT !.domains = x, !.certs = y] :
              x \in Options.DomainLists, y \in Lists(Sample.thumb)}
    \cup {[NoFields EXCEPT !.configFx = x, !.rtLinuxFx = y, !.rtWindowsFx = z] :
              x \in Options.ConfigFx, y \in Options.RuntimeLinuxFx, z \in Options.RuntimeWindowsFx}
    \cup {[NoFields EXCEPT !.autoHeal = x] : x \in Options.Flags}
    \cup {[NoFields EXCEPT !.cors = x] : x \in Options.CorsConfigs}

\* the record with every optional field absent
R_default == Record(NoFields)

\* tier standard, one instance, no TLS configuration, https-only false, no
\* backups, no slots, an empty health-check path
R_standard ==
    Record([NoFields EXCEPT !.name = PStr(Sample.app1), !.tier = PStr(S_standard),
                            !.capacity = PInt(1), !.httpsOnly = PFalse,
                            !.backup = EmptyList, !.slots = EmptyList,
                            !.healthPath = EmptyStr])

\* a free plan whose gated settings would all be findings on another tier
R_free ==
    Record([NoFields EXCEPT !.name = PStr(Sample.app2), !.tier = PStr(Sample.Free),
                            !.capacity = PInt(2), !.rtAlwaysOn = PFalse,
                            !.backup = EmptyList, !.slots = EmptyList,
                            !.zone = PFalse])

\* a record no rule objects to
R_clean ==
    Record([NoFields EXCEPT !.name = PStr(Sample.app1), !.minTls = PStr(S_1_2),
                            !.httpsOnly = PTrue,
                            !.identity = PDict([type |-> PStr(Sample.SystemAssigned)]),
                            !.rtAlwaysOn = PTrue, !.tlsHttp20 = PTrue,
                            !.tlsFtps = PStr(Sample.FtpsOnly),
                            !.appFsLevel = PStr(Sample.Error),
                            !.tier = PStr(Sample.Basic), !.capacity = PInt(2),
                            !.vnet = Named(Sample.vnet),
                            !.ipMain = PList(<<AllowCidr>>), !.ipScm = PList(<<DenyAny>>),
                            !.authEnabled = PTrue,
                            !.domains = PList(<<DefaultDomain>>),
                            !.configFx = PStr(Sample.node18),
                            !.healthPath = PStr(Sample.health), !.autoHeal = PTrue,
                            !.cors = Cors(<<PStr(Sample.origin)>>)])

\* a multi-instance premium plan with as many violations as one record can have
R_loaded ==
    Record([NoFields EXCEPT !.name = PStr(Sample.app2), !.minTls = PStr(Sample.tls_1_0),
                            !.rtDebug = PTrue, !.rtFtps = PStr(Sample.AllAllowed),
                            !.certEnabled = PTrue, !.certMode = PStr(S_Optional),
                            !.tier = PStr(Sample.PremiumV2), !.capacity = PInt(2),
                            !.domains = PList(<<CustomDomain>>),
                            !.rtWindowsFx = PStr(Sample.dotnet2),
                            !.cors = Cors(<<PStr(S_star), PStr(Sample.origin)>>)])

\* a shared plan whose gated settings are all null
R_freeNulls ==
    Record([NoFields EXCEPT !.name = PStr(Sample.app1), !.tier = PStr(Sample.SHARED),
                            !.capacity = None, !.rtAlwaysOn = None,
                            !.backup = None, !.slots = None, !.healthPath = None])

\* records with a null sub-structure or a field of another type
M_tlsNull == PDict([tlsConfig |-> None])
M_identityNull == PDict([name |-> PStr(Sample.app1), identity |-> None])
M_tlsNumber == Record([NoFields EXCEPT !.minTls = PInt(12)])
M_ftpsBool == Record([NoFields EXCEPT !.tlsFtps = PTrue])
M_ftpsNull == Record([NoFields EXCEPT !.rtFtps = None])
M_capacityNull ==
    Record([NoFields EXCEPT !.name = PStr(Sample.app2), !.tier = PStr(Sample.Standard),
                            !.capacity = None])

Malformed ==
    {M_tlsNull, M_identityNull, M_tlsNumber, M_ftpsBool, M_ftpsNull, M_capacityNull}

SmallPool == {R_default, R_standard, R_free, R_clean, R_loaded, M_tlsNull, M_capacityNull}

SeqsUpTo(S, n) == UNION {[1..k -> S] : k \in 0..n}

Snapshot(apps) == PDict([subscription |-> PStr(Sample.sub), appServices |-> PList(apps)])

Snapshots ==
    {EmptyDict, PDict([appServices |-> None])}
    \cup {Snapshot(s) : s \in SeqsUpTo(SmallPool, MaxApps)}
    \cup {Snapshot(<<Record(p)>>) : p \in WideProfiles}
    \cup {Snapshot(<<m>>) : m \in Malformed}
    \cup {Snapshot(<<R_freeNulls>>)}

(***************************************************************************)
(* Specifications                                                          *)
(***************************************************************************)
Step(a) ==
    \/ Analyze(a)
    \/ ForNext(a)
    \/ Call_check_tls_version(a)
    \/ Call_check_https_only(a)
    \/ Call_check_managed_identity(a)
    \/ Call_check_always_on(a)
    \/ Call_check_remote_debugging(a)
    \/ Call_check_ftps_state(a)
    \/ Call_check_http20_enabled(a)
    \/ Call_check_client_certificate_mode(a)
    \/ Call_check_diagnostic_logs(a)
    \/ Call_check_backup_configuration(a)
    \/ Call_check_deployment_slots(a)
    \/ Call_check_app_service_plan(a)
    \/ Call_check_vnet_integration(a)
    \/ Call_check_ip_restrictions(a)
    \/ Call_check_authentication(a)
    \/ Call_check_custom_domain_ssl(a)
    \/ Call_check_runtime_version(a)
    \/ Call_check_health_check(a)
    \/ Call_check_auto_heal(a)
    \/ Call_check_cors_configuration(a)
    \/ Return(a)
    \/ SaveFindings(a)

\* main(): one analyzer, constructed on the loaded snapshot, analyze() once
Init ==
    /\ data \in Snapshots
    /\ NewAnalyzers({1})

Next == \E a \in Analyzers : Step(a)

Spec == Init /\ [][Next]_vars


\* a caller that keeps the analyzer and calls analyze() again after it returned
MaxCalls == 2

AnalyzeAgain(a) ==
    /\ pc[a] = "returned"
    /\ Len(rets[a]) < MaxCalls
    /\ pc' = [pc EXCEPT ![a] = "loop"]
    /\ idx' = [idx EXCEPT ![a] = 0]
    /\ UNCHANGED <<data, app_name, findings, origin, raised_in, rets, doc, docvars>>

NextTwice == \E a \in Analyzers : Step(a) \/ AnalyzeAgain(a)

SpecTwice == Init /\ [][NextTwice]_vars

\* two analyzers constructed independently on equal snapshots
PairPool == {R_standard, R_free, R_loaded, M_capacityNull}

InitPair ==
    /\ data \in {Snapshot(s) : s \in SeqsUpTo(PairPool, MaxApps)}
    /\ NewAnalyzers({1, 2})

SpecPair == InitPair /\ [][Next]_vars


\* records with a resource group, one without name and group, one that makes a
\* rule raise
DocPool ==
    LET WithGroup(app, group) == PDict(app.d @@ ("resourceGroup" :> PStr(group)))
    IN  {WithGroup(R_standard, Sample.rg1), WithGroup(R_free, Sample.rg2),
         WithGroup(R_loaded, Sample.rg1), WithGroup(R_clean, Sample.rg2),
         R_default, M_capacityNull}

\* the pipeline: the analyzer's main(), then main() of generate-docs.py on the
\* findings file and the snapshot file
InitDocs ==
    /\ data \in {Snapshot(s) : s \in SeqsUpTo(DocPool, MaxApps)}
    /\ NewAnalyzers({1})

NextDocs ==
    \E a \in Analyzers :
        \/ Step(a)
        \/ DocsMain(a)
        \/ GenerateExecutiveSummary(a)
        \/ GenerateRemediationGuide(a)

SpecDocs == InitDocs /\ [][NextDocs]_vars


(***************************************************************************)
(* Properties                                                              *)
(***************************************************************************)
\* the finding titles, in the order of the rule catalog
CatalogTitles ==
    <<"Minimum TLS version not set to 1.2 or higher",
      "HTTPS Only not enforced",
      "Managed Identity not enabled",
      "Always On is not enabled",
      "Remote debugging is enabled",
      "FTP is allowed (not secure)",
      "HTTP/2 not enabled",
      "Client certificates set to Optional",
      "Diagnostic logging not configured",
      "Backup not configured",
      "No deployment slots configured",
      "Using Free or Shared tier",
      "Single instance configuration",
      "Zone redundancy not enabled",
      "VNet integration not configured",
      "No IP restrictions configured",
      "No SCM IP restrictions configured",
      "App Service Authentication not enabled",
      "Custom domain without SSL certificate",
      "Using deprecated or outdated runtime version",
      "Health check not configured",
      "Auto-heal not configured",
      "CORS configured with wildcard (*)">>

CatalogRank(title) == CHOOSE i \in 1..Len(CatalogTitles) : CatalogTitles[i] = title

\* analyze() has returned to its caller
Returned(a) == pc[a] \in {"returned", "saved"}

\* the pass over resource k is over: completed, or abandoned by an exception
PassOver(a, k) ==
    \/ idx[a] > k
    \/ idx[a] = k /\ pc[a] \in {"loop", "returned", "saved", "raised"}

\* the positions of self.findings that the pass over resource k appended
PassPositions(a, k) == {i \in 1..Len(findings[a]) : origin[a][i] = k}

PassTitles(a, k) == {findings[a][i].title : i \in PassPositions(a, k)}

(***************************************************************************)
(* The rule catalog as a table of fire-conditions over a resource record.  *)
(* A field that is absent or null, or that lies under an absent or null    *)
(* sub-structure, or whose value is not of the field's type, has its       *)
(* documented default.                                                     *)
(***************************************************************************)
RECURSIVE Field(_, _, _)
Field(v, path, default) ==
    IF path = <<>> THEN (IF v = None THEN default ELSE v)
    ELSE IF IsDict(v) /\ Head(path) \in DOMAIN v.d
    THEN Field(v.d[Head(path)], Tail(path), default)
    ELSE default

FlagAt(rec, path) == Field(rec, path, PFalse) = PTrue

\* a flag kept in two places is set when either place sets it
FlagOf(rec, key) == FlagAt(rec, <<"tlsConfig", key>>) \/ FlagAt(rec, <<"runtimeConfig", key>>)

TextAt(rec, path) ==
    LET v == Field(rec, path, EmptyStr) IN IF IsStr(v) THEN v.s ELSE <<>>

\* a text kept in several places is the first that is not empty
FirstText(rec, paths) ==
    LET given == SelectSeq(paths, LAMBDA p : TextAt(rec, p) # <<>>)
    IN  IF given = <<>> THEN <<>> ELSE TextAt(rec, given[1])

ListAt(rec, path) ==
    LET v == Field(rec, path, EmptyList) IN IF IsList(v) THEN v.l ELSE <<>>

TierOf(rec) == LowerStr(TextAt(rec, <<"appServicePlan", "sku", "tier">>))

CapacityOf(rec) ==
    LET v == Field(rec, <<"appServicePlan", "sku", "capacity">>, PInt(1))
    IN  IF v.t = "int" THEN v.i ELSE 1

\* the entries of an IP restriction list other than the default "allow any"
Restricting(rec, key) ==
    SelectSeq(ListAt(rec, <<"ipRestrictions", key>>),
        LAMBDA r : ~(/\ TextAt(r, <<"action">>) = S_Allow
                     /\ TextAt(r, <<"ipAddress">>) = S_Any))

\* the titles of the catalog entries whose fire-condition holds for rec
CatalogHolds(rec) ==
    LET tier == TierOf(rec)
        minTls == TextAt(rec, <<"tlsConfig", "minTlsVersion">>)
        appLog(target) ==
            TextAt(rec, <<"diagnosticLogs", "applicationLogsConfiguration", target, "level">>)
                \notin {<<>>, S_Off}
        httpLog(target) ==
            FlagAt(rec, <<"diagnosticLogs", "httpLogsConfiguration", target, "enabled">>)
        runtime ==
            LowerStr(FirstText(rec, << <<"config", "linuxFxVersion">>,
                                       <<"runtimeConfig", "linuxFxVersion">>,
                                       <<"runtimeConfig", "windowsFxVersion">> >>))
        domains == ListAt(rec, <<"customDomains">>)
        origins == ListAt(rec, <<"runtimeConfig", "cors", "allowedOrigins">>)
        Entry(r, fires) == IF fires THEN {CatalogTitles[r]} ELSE {}
    IN  UNION {
          Entry(1, minTls = <<>> \/ StrLess(minTls, S_1_2)),
          Entry(2, ~FlagAt(rec, <<"config", "httpsOnly">>)),
          Entry(3, TextAt(rec, <<"identity", "type">>) \in {<<>>, S_None}),
          Entry(4, tier \notin FreeShared /\ ~FlagOf(rec, "alwaysOn")),
          Entry(5, FlagOf(rec, "remoteDebuggingEnabled")),
          Entry(6, LowerStr(FirstText(rec, << <<"tlsConfig", "ftpsState">>,
                                              <<"runtimeConfig", "ftpsState">> >>))
                       = S_allallowed),
          Entry(7, ~FlagOf(rec, "http20Enabled")),
          Entry(8, /\ FlagAt(rec, <<"config", "clientCertEnabled">>)
                   /\ TextAt(rec, <<"config", "clientCertMode">>) = S_Optional),
          Entry(9, /\ ~appLog("fileSystem") /\ ~appLog("azureBlobStorage")
                   /\ ~httpLog("fileSystem") /\ ~httpLog("azureBlobStorage")),
          Entry(10, tier \in StandardUp /\ ListAt(rec, <<"backupConfig">>) = <<>>),
          Entry(11, tier \in StandardUp /\ ListAt(rec, <<"deploymentSlots">>) = <<>>),
          Entry(12, tier \in FreeShared),
          Entry(13, tier \notin FreeShared /\ CapacityOf(rec) = 1),
          Entry(14, tier \in PremiumV /\ ~FlagAt(rec, <<"appServicePlan", "zoneRedundant">>)),
          Entry(15, ListAt(rec, <<"vnetIntegration">>) = <<>>),
          Entry(16, Restricting(rec, "ipSecurityRestrictions") = <<>>),
          Entry(17, /\ Restricting(rec, "scmIpSecurityRestrictions") = <<>>
                    /\ ~FlagAt(rec, <<"ipRestrictions", "scmIpSecurityRestrictionsUseMain">>)),
          Entry(18, ~FlagAt(rec, <<"authConfig", "enabled">>)),
          Entry(19, /\ \E i \in 1..Len(domains) :
                           ~EndsWith(TextAt(domains[i], <<"hostName">>), S_azurewebsites)
                    /\ ListAt(rec, <<"sslCertificates">>) = <<>>),
          Entry(20, \E i \in 1..Len(deprecated_patterns) :
                        Contains(runtime, LowerStr(deprecated_patterns[i]))),
          Entry(21, /\ tier \notin FreeShared /\ CapacityOf(rec) > 1
                    /\ TextAt(rec, <<"runtimeConfig", "healthCheckPath">>) = <<>>),
          Entry(22, ~FlagAt(rec, <<"runtimeConfig", "autoHealEnabled">>)),
          Entry(23, \E i \in 1..Len(origins) : origins[i] = PStr(S_star))}

\* the resources of the snapshot, when the collection is a list of them
Resources == IF Iterable(AppServices) THEN Items(AppServices) ELSE <<>>

\* the pass over resource k ran all its rules
PassCompleted(a, k) ==
    \/ idx[a] > k
    \/ idx[a] = k /\ pc[a] \in {"loop", "returned", "saved"}

\* C3: for every resource, the number of findings analyze() emits for it is
\* the number of catalog fire-conditions that hold for it.
C3_CountMatchesCatalog ==
    \A a \in Analyzers : \A k \in 1..Len(Resources) :
        PassOver(a, k) =>
            Cardinality(PassPositions(a, k)) = Cardinality(CatalogHolds(Resources[k]))

\* C3, on the passes that no exception cut short: the findings emitted for
\* the resource are those of the catalog entries whose condition holds.
C3_CompletedPassMatchesCatalog ==
    \A a \in Analyzers : \A k \in 1..Len(Resources) :
        PassCompleted(a, k) =>
            /\ Cardinality(PassPositions(a, k)) = Cardinality(CatalogHolds(Resources[k]))
            /\ PassTitles(a, k) = CatalogHolds(Resources[k])

\* C1: in every findings document main() builds, the four findingsBySeverity
\* counts add up to totalFindings, which is the length of the findings list.
C1_TallyInvariant ==
    \A a \in Analyzers :
        doc[a] # NoDoc =>
            LET tally == doc[a].findingsBySeverity
            IN  /\ tally.Critical + tally.High + tally.Medium + tally.Low
                       = doc[a].totalFindings
                /\ doc[a].totalFindings = Len(doc[a].findings)

C1_Witness ==
    \E a \in Analyzers :
        /\ doc[a] # NoDoc
        /\ doc[a].findingsBySeverity.Critical > 0
        /\ doc[a].findingsBySeverity.High > 0
        /\ doc[a].findingsBySeverity.Medium > 0
        /\ doc[a].findingsBySeverity.Low > 0

\* C2: in the list analyze() returns, the findings of an earlier resource come
\* before those of a later one, and the findings of one resource are in
\* catalog order.
C2_CanonicalOrder ==
    \A a \in Analyzers :
        Returned(a) =>
            LET fs == rets[a][Len(rets[a])]
            IN  /\ Len(fs) = Len(origin[a])
                /\ \A p, q \in 1..Len(fs) :
                       p < q =>
                           \/ origin[a][p] < origin[a][q]
                           \/ /\ origin[a][p] = origin[a][q]
                              /\ CatalogRank(fs[p].title) < CatalogRank(fs[q].title)

C2_Witness ==
    \E a \in Analyzers :
        /\ Returned(a)
        /\ Len(Resources) >= 2
        /\ Cardinality(PassPositions(a, 1)) >= 11
        /\ Cardinality(PassPositions(a, 2)) >= 11
        /\ {"Using Free or Shared tier", "No SCM IP restrictions configured"}
               \subseteq PassTitles(a, 1) \cup PassTitles(a, 2)

\* C4: for a snapshot whose appServices is absent or empty, analyze() raises
\* nothing and returns an empty list, and the document has totalFindings 0 and
\* four severity counts of 0.
EmptyInput == "appServices" \notin DOMAIN data.d \/ data.d["appServices"] = EmptyList

C4_EmptyInput ==
    \A a \in Analyzers :
        EmptyInput =>
            /\ pc[a] # "raised"
            /\ findings[a] = <<>>
            /\ \A c \in 1..Len(rets[a]) : rets[a][c] = <<>>
            /\ doc[a] # NoDoc =>
                   /\ doc[a].totalFindings = 0
                   /\ doc[a].findings = <<>>
                   /\ doc[a].findingsBySeverity =
                          [Critical |-> 0, High |-> 0, Medium |-> 0, Low |-> 0]

C4_Witness ==
    \E a \in Analyzers :
        /\ "appServices" \notin DOMAIN data.d
        /\ pc[a] = "saved"
        /\ doc[a].totalFindings = 0

\* the functions analyze() calls for each resource
Rules == {RuleOrder[i] : i \in 1..Len(RuleOrder)}

\* C5: every rule is total: on every resource record, with a sub-structure or
\* a field absent, null or of another type, no check_* call raises.
C5_RulesTotal == \A a \in Analyzers : raised_in[a] \notin Rules

\* an analyzer whose analyze() call is over, by a return or by an exception
Stopped(a) == pc[a] \in {"raised", "returned", "saved"}

\* C6: a rule's failure aborts neither the other rules nor the other
\* resources: an analyze() call that is over has returned a finding list, and
\* has run every rule on every resource of the snapshot.
C6_FailureIsolation ==
    \A a \in Analyzers :
        Stopped(a) /\ Iterable(AppServices) =>
            /\ Len(rets[a]) >= 1
            /\ \A k \in 1..Len(Resources) : PassCompleted(a, k)

\* C7: a second analyze() call on the same instance returns a list equal to
\* the one its first call returned.
C7_SecondCallEqualsFirst ==
    \A a \in Analyzers : Len(rets[a]) >= 2 => rets[a][2] = rets[a][1]

DefaultPass(a, k) == Resources[k] = EmptyDict /\ PassOver(a, k)

C9_FiresByDefault ==
    {"Minimum TLS version not set to 1.2 or higher",
     "HTTPS Only not enforced",
     "Managed Identity not enabled",
     "Diagnostic logging not configured",
     "VNet integration not configured",
     "No IP restrictions configured",
     "No SCM IP restrictions configured",
     "App Service Authentication not enabled",
     "Auto-heal not configured"}

C9_TierGated ==
    {"No deployment slots configured",
     "Backup not configured",
     "Health check not configured"}

\* C9 as the specification states it: for a record with every optional field
\* absent, analyze() does not raise, the TLS, HTTPS-only, managed identity,
\* diagnostic logs, VNet, IP restrictions (main and SCM), authentication and
\* auto-heal rules fire, and the Always-On, deployment-slots, backup and
\* health-check rules do not.
C9_DefaultSafety_AsStated ==
    \A a \in Analyzers : \A k \in 1..Len(Resources) :
        DefaultPass(a, k) =>
            /\ PassCompleted(a, k)
            /\ C9_FiresByDefault \subseteq PassTitles(a, k)
            /\ PassTitles(a, k) \cap (C9_TierGated \cup {"Always On is not enabled"}) = {}

\* C9: for a record with every optional field absent, analyze() does not
\* raise, the TLS, HTTPS-only, managed identity, diagnostic logs, VNet, IP
\* restrictions (main and SCM), authentication and auto-heal rules fire, and
\* so does the Always-On rule (the absent tier is neither free nor shared);
\* the deployment-slots, backup and health-check rules do not fire.
C9_DefaultSafety ==
    \A a \in Analyzers : \A k \in 1..Len(Resources) :
        DefaultPass(a, k) =>
            /\ PassCompleted(a, k)
            /\ C9_FiresByDefault \cup {"Always On is not enabled"} \subseteq PassTitles(a, k)
            /\ PassTitles(a, k) \cap C9_TierGated = {}

C9_Witness ==
    \E a \in Analyzers : \E k \in 1..Len(Resources) :
        /\ DefaultPass(a, k)
        /\ Returned(a)
        /\ "Always On is not enabled" \in PassTitles(a, k)

\* the findings of the pass over resource k, as <<title, severity>> pairs
PassFindings(a, k) ==
    {<<findings[a][i].title, findings[a][i].severity>> : i \in PassPositions(a, k)}

\* the completed passes over the scenario's record: tier standard, capacity
\* 1, no TLS configuration, https-only false, empty backup and slot lists, an
\* empty health-check path, nothing else
ScenarioPass(a, k) == Resources[k] = R_standard /\ PassCompleted(a, k)

C10_Twelve ==
    {<<"Minimum TLS version not set to 1.2 or higher", CRITICAL>>,
     <<"HTTPS Only not enforced", HIGH>>,
     <<"Single instance configuration", MEDIUM>>,
     <<"Backup not configured", MEDIUM>>,
     <<"No deployment slots configured", LOW>>,
     <<"Managed Identity not enabled", MEDIUM>>,
     <<"Diagnostic logging not configured", MEDIUM>>,
     <<"VNet integration not configured", LOW>>,
     <<"No IP restrictions configured", MEDIUM>>,
     <<"No SCM IP restrictions configured", MEDIUM>>,
     <<"App Service Authentication not enabled", LOW>>,
     <<"Auto-heal not configured", LOW>>}

\* C10 as the specification states it: the scenario's findings are exactly
\* the twelve it lists.
C10_Scenario_AsStated ==
    \A a \in Analyzers : \A k \in 1..Len(Resources) :
        ScenarioPass(a, k) =>
            /\ PassFindings(a, k) = C10_Twelve
            /\ Cardinality(PassPositions(a, k)) = Cardinality(C10_Twelve)

\* C10: the scenario's findings are the twelve the specification lists and
\* two more, Always On (Medium) and HTTP/2 (Low): fourteen findings.
C10_Scenario ==
    \A a \in Analyzers : \A k \in 1..Len(Resources) :
        ScenarioPass(a, k) =>
            /\ PassFindings(a, k) =
                   C10_Twelve \cup {<<"Always On is not enabled", MEDIUM>>,
                                    <<"HTTP/2 not enabled", LOW>>}
            /\ Cardinality(PassPositions(a, k)) = Cardinality(C10_Twelve) + 2

C10_Witness ==
    \E a \in Analyzers : \E k \in 1..Len(Resources) :
        /\ ScenarioPass(a, k)
        /\ Returned(a)
        /\ <<"Backup not configured", MEDIUM>> \in PassFindings(a, k)

\* the pass over resource k has run `rule`, and the call returned
RuleRan(a, k, rule) ==
    \/ PassCompleted(a, k)
    \/ /\ idx[a] = k
       /\ \/ pc[a] \in Rules /\ RulePos(pc[a]) > RulePos(rule)
          \/ /\ pc[a] = "raised" /\ raised_in[a] \in Rules
             /\ RulePos(raised_in[a]) > RulePos(rule)

\* the findings of the pass over resource k with the given title
Titled(a, k, title) == {i \in PassPositions(a, k) : findings[a][i].title = title}

\* the pass over resource k holds exactly one finding of that title, and it has
\* that severity and category
FiresOnce(a, k, title, severity, category) ==
    /\ Cardinality(Titled(a, k, title)) = 1
    /\ \A i \in Titled(a, k, title) :
           findings[a][i].severity = severity /\ findings[a][i].category = category

C11_GatedOut ==
    {"Always On is not enabled", "Single instance configuration", "Backup not configured",
     "No deployment slots configured", "Health check not configured"}

\* C11: for a resource on a free or shared plan, whatever its always-on flag,
\* capacity, backup list, slot list and health-check path, none of the
\* Always-On, Single-instance, Backup, Deployment-slots and Health-check
\* findings is ever emitted, and once check_app_service_plan has run the pass
\* holds the Plan-tier finding (High, Reliability).
C11_TierGating ==
    \A a \in Analyzers : \A k \in 1..Len(Resources) :
        TierOf(Resources[k]) \in FreeShared =>
            /\ PassTitles(a, k) \cap C11_GatedOut = {}
            /\ RuleRan(a, k, "check_app_service_plan") =>
                   FiresOnce(a, k, "Using Free or Shared tier", HIGH, "Reliability")

C11_Witness ==
    \E a \in Analyzers : \E k \in 1..Len(Resources) :
        /\ Resources[k] = R_free
        /\ Returned(a)
        /\ FiresOnce(a, k, "Using Free or Shared tier", HIGH, "Reliability")

\* the allowed-origins list of the CORS configuration, empty without one
AllowedOrigins(rec) == ListAt(rec, <<"runtimeConfig", "cors", "allowedOrigins">>)

StarListed(rec) == \E i \in 1..Len(AllowedOrigins(rec)) : AllowedOrigins(rec)[i] = PStr(S_star)

\* C12: once check_cors_configuration has run on a resource, the pass holds
\* exactly one CORS-wildcard finding (Medium, Security) when the CORS
\* configuration is present and its allowed-origins list contains "*", in any
\* position and any number of times, and no CORS finding when the
\* configuration is absent or null or its list has no "*".
C12_CorsWildcard ==
    \A a \in Analyzers : \A k \in 1..Len(Resources) :
        RuleRan(a, k, "check_cors_configuration") =>
            IF StarListed(Resources[k])
            THEN FiresOnce(a, k, "CORS configured with wildcard (*)", MEDIUM, "Security")
            ELSE Titled(a, k, "CORS configured with wildcard (*)") = {}

C12_Witness ==
    \E a \in Analyzers : \E k \in 1..Len(Resources) :
        /\ AllowedOrigins(Resources[k]) = <<PStr(Sample.origin), PStr(S_star), PStr(S_star)>>
        /\ Returned(a)
        /\ FiresOnce(a, k, "CORS configured with wildcard (*)", MEDIUM, "Security")

\* the minimum TLS version of a record, the empty string when it has none
MinTls(rec) == Field(rec, <<"tlsConfig", "minTlsVersion">>, EmptyStr)

\* C13: once check_tls_version has run on a resource whose minimum TLS
\* version is absent or a string, the pass holds exactly one TLS finding
\* (Critical, Security) when the version is absent, empty or lexicographically
\* below "1.2", and no TLS finding when it is at or above "1.2".
C13_TlsRule ==
    \A a \in Analyzers : \A k \in 1..Len(Resources) :
        IsStr(MinTls(Resources[k])) /\ RuleRan(a, k, "check_tls_version") =>
            IF MinTls(Resources[k]).s = <<>> \/ StrLess(MinTls(Resources[k]).s, S_1_2)
            THEN FiresOnce(a, k, "Minimum TLS version not set to 1.2 or higher",
                           CRITICAL, "Security")
            ELSE Titled(a, k, "Minimum TLS version not set to 1.2 or higher") = {}

C13_Witness ==
    \E a \in Analyzers : \E k \in 1..Len(Resources) :
        /\ MinTls(Resources[k]) = PStr(Sample.tls_1_10)
        /\ Returned(a)
        /\ FiresOnce(a, k, "Minimum TLS version not set to 1.2 or higher", CRITICAL, "Security")

Severities == {"Critical", "High", "Medium", "Low"}

Categories == {"Security", "Performance", "Reliability", "Monitoring", "DevOps"}

\* the severity and the category the rule table gives each entry, in catalog order
CatalogSeverity ==
    <<"Critical", "High", "Medium", "Medium", "High", "Medium", "Low", "Low", "Medium",
      "Medium", "Low", "High", "Medium", "Low", "Low", "Medium", "Medium", "Low",
      "Medium", "High", "Medium", "Low", "Medium">>

CatalogCategory ==
    <<"Security", "Security", "Security", "Performance", "Security", "Security", "Performance",
      "Security", "Monitoring", "Reliability", "DevOps", "Reliability", "Reliability",
      "Reliability", "Security", "Security", "Security", "Security", "Security", "Security",
      "Reliability", "Reliability", "Security">>

\* f is a finding of a catalog entry, with the entry's severity and category
OfCatalog(f) ==
    /\ f.severity \in Severities
    /\ f.category \in Categories
    /\ \E r \in 1..Len(CatalogTitles) :
           /\ f.title = CatalogTitles[r]
           /\ f.severity = CatalogSeverity[r]
           /\ f.category = CatalogCategory[r]

\* C14: every finding of self.findings, of every returned list and of every
\* findings document has a severity of the four and a category of the five,
\* and they are the ones the rule table gives the catalog entry of its title.
C14_ClosedSets ==
    \A a \in Analyzers :
        /\ \A i \in 1..Len(findings[a]) : OfCatalog(findings[a][i])
        /\ \A c \in 1..Len(rets[a]) : \A i \in 1..Len(rets[a][c]) : OfCatalog(rets[a][c][i])
        /\ doc[a] # NoDoc =>
               \A i \in 1..Len(doc[a].findings) : OfCatalog(doc[a].findings[i])

C14_Witness ==
    \E a \in Analyzers :
        /\ doc[a] # NoDoc
        /\ {doc[a].findings[i].severity : i \in 1..Len(doc[a].findings)} = Severities
        /\ {doc[a].findings[i].category : i \in 1..Len(doc[a].findings)} = Categories

\* C15: within the pass over one resource no two findings share a title, and
\* when the pass has run all its rules each catalog entry whose condition
\* holds for the resource has contributed one finding and the others none.
C15_OncePerPair ==
    \A a \in Analyzers : \A k \in 1..Len(Resources) :
        /\ \A i \in PassPositions(a, k) : \A j \in PassPositions(a, k) :
               i # j => findings[a][i].title # findings[a][j].title
        /\ PassCompleted(a, k) => PassTitles(a, k) = CatalogHolds(Resources[k])

\* a version string that several deprecated patterns match
ManyMatch(s) ==
    Cardinality({i \in 1..Len(deprecated_patterns) :
                     Contains(LowerStr(s), LowerStr(deprecated_patterns[i]))}) >= 2

C15_Witness ==
    \E a \in Analyzers : \E k \in 1..Len(Resources) :
        /\ PassCompleted(a, k)
        /\ ManyMatch(TextAt(Resources[k], <<"config", "linuxFxVersion">>))
        /\ Cardinality(Titled(a, k, "Using deprecated or outdated runtime version")) = 1

\* C16: no step of analyze(), of a check_* rule or of main() changes the
\* snapshot the analyzer was constructed with: every resource record and every
\* nested list and mapping stays as it was.
C16_ReadOnlyInput == [][data' = data]_vars

\* an evaluation that filtered IP restriction lists has returned
C16_Witness ==
    \E a \in Analyzers : \E k \in 1..Len(Resources) :
        /\ Returned(a)
        /\ Len(findings[a]) > 0
        /\ ListAt(Resources[k], <<"ipRestrictions", "ipSecurityRestrictions">>)
               = <<AllowAny, AllowCidr>>
        /\ "tlsConfig" \notin DOMAIN Resources[k].d

\* the findings of the pass over resource k, in the order they were appended
PassSeq(a, k) ==
    LET at == SelectSeq([i \in 1..Len(findings[a]) |-> i], LAMBDA i : origin[a][i] = k)
    IN  [j \in 1..Len(at) |-> findings[a][at[j]]]

\* the list for a sequence of resources: the findings of each in turn
Sequential(apps) == Flatten([k \in 1..Len(apps) |-> LoopBody(apps[k])])

\* the findings fs, each tagged with the resource index k
Tagged(k, fs) == [i \in 1..Len(fs) |-> [res |-> k, f |-> fs[i]]]

\* the findings of a tagged list, without the tags
Untagged(xs) == [i \in 1..Len(xs) |-> xs[i].f]

\* the resources evaluated in the order `order`, each finding tagged with the
\* index of its resource, then sorted by that index
Resorted(apps, order) ==
    LET tagged == Flatten([j \in 1..Len(order) |-> Tagged(order[j], LoopBody(apps[order[j]]))])
    IN  Flatten([k \in 1..Len(apps) |-> Untagged(SelectSeq(tagged, LAMBDA x : x.res = k))])

Orders(n) == {p \in [1..n -> 1..n] : \A i \in 1..n : \E j \in 1..n : p[j] = i}

\* C17: when analyze() is over, the findings of each pass it completed are
\* those of the resource's record alone, whatever the other resources; so the
\* list returned for the resources A followed by B is the list for A followed
\* by the list for B, and evaluating the resources in any order and sorting
\* the findings by resource index gives the returned list.
C17_ResourceIndependence ==
    \A a \in Analyzers :
        Stopped(a) =>
            /\ \A k \in 1..Len(Resources) :
                   PassCompleted(a, k) => PassSeq(a, k) = LoopBody(Resources[k])
            /\ Returned(a) =>
                   /\ \A m \in 0..Len(Resources) :
                          rets[a][1] = Sequential(SubSeq(Resources, 1, m))
                                          \o Sequential(SubSeq(Resources, m + 1, Len(Resources)))
                   /\ \A p \in Orders(Len(Resources)) : Resorted(Resources, p) = rets[a][1]

C17_Witness ==
    \E a \in Analyzers :
        /\ Returned(a)
        /\ Len(Resources) >= 2
        /\ Resources[1] # Resources[2]
        /\ PassSeq(a, 1) # <<>> /\ PassSeq(a, 2) # <<>>
        /\ PassTitles(a, 1) # PassTitles(a, 2)

UseMain(rec) == FlagAt(rec, <<"ipRestrictions", "scmIpSecurityRestrictionsUseMain">>)

\* the pass over resource k holds that finding (Medium, Security), once, when
\* `fires`, and no finding of that title otherwise
MediumSecurityIff(a, k, title, fires) ==
    IF fires THEN FiresOnce(a, k, title, MEDIUM, "Security") ELSE Titled(a, k, title) = {}

\* C18: once check_ip_restrictions has run on a resource, the main-site
\* finding is there iff the main list without its "Allow"/"Any" entries is
\* empty, and the SCM finding is there iff the SCM list without such entries
\* is empty and scmIpSecurityRestrictionsUseMain is false or absent; neither
\* depends on the other.
C18_IpRestrictions ==
    \A a \in Analyzers : \A k \in 1..Len(Resources) :
        RuleRan(a, k, "check_ip_restrictions") =>
            /\ MediumSecurityIff(a, k, "No IP restrictions configured",
                   Restricting(Resources[k], "ipSecurityRestrictions") = <<>>)
            /\ MediumSecurityIff(a, k, "No SCM IP restrictions configured",
                   /\ Restricting(Resources[k], "scmIpSecurityRestrictions") = <<>>
                   /\ ~UseMain(Resources[k]))

\* use-main is set and the main list holds only the default entry: the main
\* finding without the SCM finding
C18_Witness ==
    \E a \in Analyzers : \E k \in 1..Len(Resources) :
        /\ Returned(a)
        /\ UseMain(Resources[k])
        /\ ListAt(Resources[k], <<"ipRestrictions", "ipSecurityRestrictions">>) = <<AllowAny>>
        /\ Titled(a, k, "No IP restrictions configured") # {}
        /\ Titled(a, k, "No SCM IP restrictions configured") = {}

\* s contains a deprecated pattern, whatever the case of its letters
Deprecated(s) ==
    \E i \in 1..Len(deprecated_patterns) :
        Contains(LowerStr(s), LowerStr(deprecated_patterns[i]))

\* the version string the runtime rule looks at: the first that is not empty
\* of config.linuxFxVersion, runtimeConfig.linuxFxVersion and
\* runtimeConfig.windowsFxVersion
ChosenRuntime(rec) ==
    FirstText(rec, << <<"config", "linuxFxVersion">>,
                      <<"runtimeConfig", "linuxFxVersion">>,
                      <<"runtimeConfig", "windowsFxVersion">> >>)

\* C19: once check_runtime_version has run on a resource, the pass holds
\* exactly one runtime finding (High, Security) when the chosen version string
\* contains a deprecated pattern, however many patterns match, and none
\* otherwise, also when a location that was not chosen holds a deprecated
\* version.
C19_RuntimeVersion ==
    \A a \in Analyzers : \A k \in 1..Len(Resources) :
        RuleRan(a, k, "check_runtime_version") =>
            IF Deprecated(ChosenRuntime(Resources[k]))
            THEN FiresOnce(a, k, "Using deprecated or outdated runtime version",
                           HIGH, "Security")
            ELSE Titled(a, k, "Using deprecated or outdated runtime version") = {}

\* a supported version is chosen while a later location holds a deprecated one
C19_Witness ==
    \E a \in Analyzers : \E k \in 1..Len(Resources) :
        /\ Returned(a)
        /\ ~Deprecated(ChosenRuntime(Resources[k]))
        /\ Deprecated(TextAt(Resources[k], <<"runtimeConfig", "linuxFxVersion">>))
        /\ Deprecated(TextAt(Resources[k], <<"runtimeConfig", "windowsFxVersion">>))
        /\ Titled(a, k, "Using deprecated or outdated runtime version") = {}

\* C20: once check_always_on has run on a resource, the pass holds the
\* Always On finding (Medium, Performance) iff the lower-cased plan tier is
\* neither "free" nor "shared" and the always-on flag is false, the flag being
\* true when tlsConfig.alwaysOn or runtimeConfig.alwaysOn is true.
C20_AlwaysOn ==
    \A a \in Analyzers : \A k \in 1..Len(Resources) :
        RuleRan(a, k, "check_always_on") =>
            IF /\ TierOf(Resources[k]) \notin FreeShared
               /\ ~FlagAt(Resources[k], <<"tlsConfig", "alwaysOn">>)
               /\ ~FlagAt(Resources[k], <<"runtimeConfig", "alwaysOn">>)
            THEN FiresOnce(a, k, "Always On is not enabled", MEDIUM, "Performance")
            ELSE Titled(a, k, "Always On is not enabled") = {}

\* on a tier that is not free or shared, tlsConfig says false and
\* runtimeConfig says true: the flag is set and the rule stays silent
C20_Witness ==
    \E a \in Analyzers : \E k \in 1..Len(Resources) :
        /\ RuleRan(a, k, "check_always_on")
        /\ TierOf(Resources[k]) \notin FreeShared
        /\ Field(Resources[k], <<"tlsConfig", "alwaysOn">>, None) = PFalse
        /\ FlagAt(Resources[k], <<"runtimeConfig", "alwaysOn">>)
        /\ Titled(a, k, "Always On is not enabled") = {}

\* the FTPS state the rule looks at: tlsConfig.ftpsState unless it is empty,
\* runtimeConfig.ftpsState otherwise
ChosenFtps(rec) ==
    FirstText(rec, << <<"tlsConfig", "ftpsState">>, <<"runtimeConfig", "ftpsState">> >>)

\* C21: once check_ftps_state has run on a resource, the pass holds the FTP
\* finding (Medium, Security) iff the chosen FTPS state, tlsConfig's unless
\* empty, lower-cased is "allallowed"; a tlsConfig state that is not empty
\* hides the runtimeConfig one.  For the boolean flags a true value in either
\* location decides: Always On and HTTP/2 stay silent, remote debugging fires.
C21_FtpsPrecedence ==
    \A a \in Analyzers : \A k \in 1..Len(Resources) :
        /\ RuleRan(a, k, "check_ftps_state") =>
               MediumSecurityIff(a, k, "FTP is allowed (not secure)",
                                 LowerStr(ChosenFtps(Resources[k])) = S_allallowed)
        /\ RuleRan(a, k, "check_always_on") /\ FlagOf(Resources[k], "alwaysOn") =>
               Titled(a, k, "Always On is not enabled") = {}
        /\ RuleRan(a, k, "check_remote_debugging") =>
               IF FlagOf(Resources[k], "remoteDebuggingEnabled")
               THEN FiresOnce(a, k, "Remote debugging is enabled", HIGH, "Security")
               ELSE Titled(a, k, "Remote debugging is enabled") = {}
        /\ RuleRan(a, k, "check_http20_enabled") /\ FlagOf(Resources[k], "http20Enabled") =>
               Titled(a, k, "HTTP/2 not enabled") = {}

\* tlsConfig says "FtpsOnly", runtimeConfig says "AllAllowed": no FTP finding
C21_Witness ==
    \E a \in Analyzers : \E k \in 1..Len(Resources) :
        /\ RuleRan(a, k, "check_ftps_state")
        /\ TextAt(Resources[k], <<"tlsConfig", "ftpsState">>) = Sample.FtpsOnly
        /\ TextAt(Resources[k], <<"runtimeConfig", "ftpsState">>) = Sample.AllAllowed
        /\ Titled(a, k, "FTP is allowed (not secure)") = {}

\* the entries of the domain list whose hostName, empty when left out, does not
\* end with ".azurewebsites.net"
OwnDomains(rec) ==
    SelectSeq(ListAt(rec, <<"customDomains">>),
        LAMBDA d : ~EndsWith(TextAt(d, <<"hostName">>), S_azurewebsites))

\* C22: once check_custom_domain_ssl has run on a resource, the pass holds the
\* custom-domain finding (Medium, Security) iff the domain list has an entry
\* whose hostName does not end with ".azurewebsites.net", an entry without a
\* hostName being one, and the certificate list is empty.
C22_CustomDomainSsl ==
    \A a \in Analyzers : \A k \in 1..Len(Resources) :
        RuleRan(a, k, "check_custom_domain_ssl") =>
            MediumSecurityIff(a, k, "Custom domain without SSL certificate",
                /\ OwnDomains(Resources[k]) # <<>>
                /\ ListAt(Resources[k], <<"sslCertificates">>) = <<>>)

\* a domain entry without a hostName and no certificate: the finding is there
C22_Witness ==
    \E a \in Analyzers : \E k \in 1..Len(Resources) :
        /\ RuleRan(a, k, "check_custom_domain_ssl")
        /\ ListAt(Resources[k], <<"customDomains">>) = <<EmptyDict>>
        /\ ListAt(Resources[k], <<"sslCertificates">>) = <<>>
        /\ Titled(a, k, "Custom domain without SSL certificate") # {}

\* C23: once check_health_check has run on a resource, the pass holds the
\* health-check finding (Medium, Reliability) iff the lower-cased tier is
\* neither "free" nor "shared", the capacity, 1 when left out, is above 1 and
\* the health-check path is empty or left out; without a capacity the rule
\* never fires.
C23_HealthCheck ==
    \A a \in Analyzers : \A k \in 1..Len(Resources) :
        RuleRan(a, k, "check_health_check") =>
            /\ IF /\ TierOf(Resources[k]) \notin FreeShared
                  /\ CapacityOf(Resources[k]) > 1
                  /\ TextAt(Resources[k], <<"runtimeConfig", "healthCheckPath">>) = <<>>
               THEN FiresOnce(a, k, "Health check not configured", MEDIUM, "Reliability")
               ELSE Titled(a, k, "Health check not configured") = {}
            /\ Field(Resources[k], <<"appServicePlan", "sku", "capacity">>, Absent) = Absent =>
                   Titled(a, k, "Health check not configured") = {}

\* a plan above the shared tier without a capacity and without a health-check
\* path: the rule has run and stays silent
C23_Witness ==
    \E a \in Analyzers : \E k \in 1..Len(Resources) :
        /\ RuleRan(a, k, "check_health_check")
        /\ TierOf(Resources[k]) = LowerStr(Sample.Standard)
        /\ Field(Resources[k], <<"appServicePlan", "sku", "capacity">>, Absent) = Absent
        /\ TextAt(Resources[k], <<"runtimeConfig", "healthCheckPath">>) = <<>>
        /\ Titled(a, k, "Health check not configured") = {}

\* a field as the record gives it: Absent when a key on the way to it is left
\* out, the value under the key otherwise
RECURSIVE Given(_, _)
Given(v, path) ==
    IF path = <<>> THEN v
    ELSE IF IsDict(v) /\ Head(path) \in DOMAIN v.d THEN Given(v.d[Head(path)], Tail(path))
    ELSE Absent

C25_WithFreeTier ==
    {"Always On is not enabled", "Backup not configured", "No deployment slots configured",
     "Zone redundancy not enabled", "Health check not configured"}

\* C25: once check_app_service_plan has run on a resource whose capacity is 1
\* or left out, the pass holds exactly one of the Plan-tier and the
\* Single-instance findings; no pass ever holds the Single-instance finding
\* together with the Health-check finding, nor the Plan-tier finding together
\* with an Always-On, Backup, Deployment-slots, Zone-redundancy or Health-check
\* finding.
C25_PlanDichotomy ==
    \A a \in Analyzers : \A k \in 1..Len(Resources) :
        /\ /\ RuleRan(a, k, "check_app_service_plan")
           /\ Given(Resources[k], <<"appServicePlan", "sku", "capacity">>) \in {Absent, PInt(1)}
           => Cardinality(Titled(a, k, "Using Free or Shared tier")
                          \cup Titled(a, k, "Single instance configuration")) = 1
        /\ ~ {"Single instance configuration", "Health check not configured"}
                 \subseteq PassTitles(a, k)
        /\ "Using Free or Shared tier" \in PassTitles(a, k) =>
               PassTitles(a, k) \cap C25_WithFreeTier = {}

\* a pass over a free-tier resource of capacity 1 that is complete: the
\* Plan-tier finding is there, the Single-instance finding is not
C25_Witness ==
    \E a \in Analyzers : \E k \in 1..Len(Resources) :
        /\ PassCompleted(a, k)
        /\ Given(Resources[k], <<"appServicePlan", "sku", "capacity">>) = PInt(1)
        /\ "Using Free or Shared tier" \in PassTitles(a, k)
        /\ "Single instance configuration" \notin PassTitles(a, k)

\* C26: every finding carries, as its subject, the name of the resource whose
\* pass appended it, and "Unknown", the default analyze() uses, when the
\* record has no name; the subject is never null.
C26_SubjectIsName ==
    \A a \in Analyzers : \A i \in 1..Len(findings[a]) :
        /\ findings[a][i].app_name = Get(Resources[origin[a][i]], "name", PStr(S_Unknown))
        /\ findings[a][i].app_name # None

\* what the rules do instead: the subject is the record's name when it has
\* one and null when it has none, while analyze() itself holds "Unknown"
C26_SubjectAsRead ==
    \A a \in Analyzers : \A i \in 1..Len(findings[a]) :
        /\ findings[a][i].app_name = Get(Resources[origin[a][i]], "name", None)
        /\ idx[a] = origin[a][i] /\ pc[a] \in Rules /\ findings[a][i].app_name = None =>
               app_name[a] = PStr(S_Unknown)

\* xs is the beginning of ys
IsPrefix(xs, ys) == Len(xs) <= Len(ys) /\ SubSeq(ys, 1, Len(xs)) = xs

\* C28: every step leaves the findings already in self.findings where and as
\* they were and adds new ones only after them, and the list analyze() returns
\* is the list as it stands at the return, so the list at every earlier step
\* is a prefix of the returned one.
C28_AppendOnly ==
    [][\A a \in Analyzers :
           /\ IsPrefix(findings[a], findings'[a])
           /\ rets'[a] # rets[a] =>
                  /\ rets'[a] = Append(rets[a], findings[a])
                  /\ findings'[a] = findings[a]]_vars

\* an evaluation of two resources has returned findings of both
C28_Witness ==
    \E a \in Analyzers :
        /\ Returned(a)
        /\ Len(Resources) = 2
        /\ rets[a][1] = findings[a]
        /\ \A k \in 1..2 : Cardinality(PassPositions(a, k)) >= 2

\* the finding with this title is in the pass iff fires
Iff(a, k, title, fires) == (Titled(a, k, title) # {}) <=> fires

\* C29: the tier-gated rules test the lower-cased tier.  Once such a rule has
\* run on a resource, its finding is there iff its catalog condition holds of
\* the lower-cased tier: "Free" and "SHARED" are gated like "free" and
\* "shared", and a tier outside the named sets, "Basic", empty or left out,
\* lets Always On, Single instance and Health check fire and keeps Backup,
\* Deployment slots and Zone redundancy out of every pass.
C29_TierComparisons ==
    \A a \in Analyzers : \A k \in 1..Len(Resources) :
        LET rec == Resources[k]
            tier == TierOf(rec)
            capacity == Given(rec, <<"appServicePlan", "sku", "capacity">>)
        IN  /\ RuleRan(a, k, "check_always_on") =>
                   Iff(a, k, "Always On is not enabled",
                       tier \notin FreeShared /\ ~FlagOf(rec, "alwaysOn"))
            /\ RuleRan(a, k, "check_backup_configuration") =>
                   Iff(a, k, "Backup not configured",
                       tier \in StandardUp /\ ListAt(rec, <<"backupConfig">>) = <<>>)
            /\ RuleRan(a, k, "check_deployment_slots") =>
                   Iff(a, k, "No deployment slots configured",
                       tier \in StandardUp /\ ListAt(rec, <<"deploymentSlots">>) = <<>>)
            /\ RuleRan(a, k, "check_app_service_plan") =>
                   /\ Iff(a, k, "Using Free or Shared tier", tier \in FreeShared)
                   /\ Iff(a, k, "Single instance configuration",
                          tier \notin FreeShared /\ capacity \in {Absent, PInt(1)})
                   /\ Iff(a, k, "Zone redundancy not enabled",
                          tier \in PremiumV /\ ~FlagAt(rec, <<"appServicePlan", "zoneRedundant">>))
            /\ RuleRan(a, k, "check_health_check") =>
                   Iff(a, k, "Health check not configured",
                       /\ tier \notin FreeShared /\ CapacityOf(rec) > 1
                       /\ TextAt(rec, <<"runtimeConfig", "healthCheckPath">>) = <<>>)
            /\ tier \notin StandardUp =>
                   PassTitles(a, k) \cap {"Backup not configured", "No deployment slots configured",
                                          "Zone redundancy not enabled"} = {}

\* a tier written in capitals, "SHARED", is gated like "shared": a completed
\* pass holds the Plan-tier finding and is silent on Always On
C29_Witness ==
    \E a \in Analyzers : \E k \in 1..Len(Resources) :
        /\ PassCompleted(a, k)
        /\ TextAt(Resources[k], <<"appServicePlan", "sku", "tier">>) = Sample.SHARED
        /\ ~FlagOf(Resources[k], "alwaysOn")
        /\ "Using Free or Shared tier" \in PassTitles(a, k)
        /\ "Always On is not enabled" \notin PassTitles(a, k)

\* main() of generate-docs.py got past generate_remediation_guide
GuideWritten(a) == docs_pc[a] = "remediation_file"

\* the titles of the blocks that have a line in their command block
Commanded(blocks) == {blocks[i].title : i \in {j \in 1..Len(blocks) : blocks[j].commands # <<>>}}

\* the Critical and High blocks of the guide, one after the other
FixSections(a) == remediation[a].critical \o remediation[a].high

\* C24 as the specification states it: the command mapping covers two rule
\* types, so in no remediation guide do the Critical and High blocks of more
\* than two catalog rules hold a command line.
C24_TwoRuleTypes_AsStated ==
    \A a \in Analyzers :
        GuideWritten(a) => Cardinality(Commanded(FixSections(a))) <= 2

C24_Mapped ==
    {"Minimum TLS version not set to 1.2 or higher", "HTTPS Only not enforced",
     "Remote debugging is enabled"}

\* the command line the guide gives for a finding of this title
C24_Line(title, rg, name) ==
    CASE title = "Minimum TLS version not set to 1.2 or higher" ->
             CommandLine("min-tls-version", rg, name)
      [] title = "HTTPS Only not enforced" -> CommandLine("https-only", rg, name)
      [] title = "Remote debugging is enabled" -> CommandLine("remote-debugging", rg, name)

\* C24: the command mapping covers three rule types.  In every remediation
\* guide the block of a TLS-version, HTTPS-Only or Remote-debugging finding
\* holds one command line per affected service, with that service's name and
\* resource group, and the block of every other Critical or High finding is
\* empty.
C24_ThreeRuleTypes ==
    \A a \in Analyzers :
        GuideWritten(a) =>
            \A i \in 1..Len(FixSections(a)) :
                LET block == FixSections(a)[i]
                    affected == SelectSeq(doc[a].findings, LAMBDA f : f.title = block.title)
                IN  IF block.title \in C24_Mapped
                    THEN block.commands =
                             [j \in 1..Len(affected) |->
                                 C24_Line(block.title,
                                     app_rg_map(Resources, affected[j].appService),
                                     affected[j].appService)]
                    ELSE block.commands = <<>>

\* a guide in which the three mapped rules have command lines and the block of
\* a fourth High finding is empty
C24_Witness ==
    \E a \in Analyzers :
        /\ GuideWritten(a)
        /\ Commanded(FixSections(a)) = C24_Mapped
        /\ \E i \in 1..Len(remediation[a].high) : remediation[a].high[i].commands = <<>>

\* the tally invariant of a findings document
TallyHolds(d) ==
    /\ d.totalFindings = Len(d.findings)
    /\ d.totalFindings = d.findingsBySeverity.Critical + d.findingsBySeverity.High
                           + d.findingsBySeverity.Medium + d.findingsBySeverity.Low

\* C27: for every findings document that satisfies the tally invariant, the
\* one with zero findings included, generate_executive_summary returns a
\* document and does not raise.
C27_SummaryAcceptsEveryDocument ==
    \A a \in Analyzers :
        doc[a] # NoDoc /\ TallyHolds(doc[a]) /\ docs_pc[a] \notin {"start", "main"} =>
            /\ docs_raised_in[a] # "generate_executive_summary"
            /\ exec_summary[a] # NoDoc

\* what the renderer does instead: it returns a document iff there is a finding
C27_SummaryNeedsAFinding ==
    \A a \in Analyzers :
        doc[a] # NoDoc /\ docs_pc[a] \notin {"start", "main"} =>
            IF doc[a].totalFindings = 0
            THEN docs_raised_in[a] = "generate_executive_summary" /\ exec_summary[a] = NoDoc
            ELSE exec_summary[a] # NoDoc /\ exec_summary[a].totalFindings = Len(doc[a].findings)

\* what the guide shows of the findings of the document
ShownSeq(fs) ==
    [i \in 1..Len(fs) |-> <<fs[i].title, fs[i].severity, fs[i].description, fs[i].recommendation>>]

\* what the entries of a service section show
ListedSeq(es) ==
    [i \in 1..Len(es) |-> <<es[i].title, es[i].severity, es[i].issue, es[i].fix>>]

\* the findings of the document about this subject and of this severity
InDocument(a, name, severity) ==
    SelectSeq(doc[a].findings, LAMBDA f : f.appService = name /\ f.severity = severity)

\* C30: in every remediation guide, the findings of each service section go
\* from the most to the least severe; those of one severity are the
\* document's findings of that service and severity in the document's order;
\* no two sections are about the same service and every finding of the
\* document has its section, so each finding is listed once; and the findings
\* document is the one the analyzer saved.
C30_GuideOrdering ==
    \A a \in Analyzers :
        GuideWritten(a) =>
            LET sections == remediation[a].services
            IN  /\ \A s \in 1..Len(sections) :
                       LET listed == sections[s].findings
                       IN  /\ \A i, j \in 1..Len(listed) :
                                  i < j => severity_order(listed[i].severity)
                                               <= severity_order(listed[j].severity)
                           /\ \A sev \in Severities :
                                  ListedSeq(SelectSeq(listed, LAMBDA f : f.severity = sev))
                                      = ShownSeq(InDocument(a, sections[s].app_name, sev))
                           /\ \A i \in 1..Len(listed) : listed[i].number = i
                           /\ sections[s].count = Len(listed)
                           /\ \A t \in 1..Len(sections) :
                                  sections[t].app_name = sections[s].app_name => t = s
                /\ \A i \in 1..Len(doc[a].findings) :
                       \E s \in 1..Len(sections) :
                           sections[s].app_name = doc[a].findings[i].appService
                /\ remediation[a].findings_data = doc[a]
                /\ doc[a].findings = [i \in 1..Len(rets[a][1]) |-> to_dict(rets[a][1][i])]

\* a guide with two service sections, in one of which the sort moved a finding:
\* its findings are not in the order the document has them
C30_Witness ==
    \E a \in Analyzers :
        /\ GuideWritten(a)
        /\ Len(remediation[a].services) = 2
        /\ \E s \in 1..2 :
               LET name == remediation[a].services[s].app_name
               IN  ListedSeq(remediation[a].services[s].findings)
                       # ShownSeq(SelectSeq(doc[a].findings, LAMBDA f : f.appService = name))

====
